---- MODULE Spec2Model ----
(***************************************************************************)
(* TrustHoneypot: session store (app/memory.py), request handler           *)
(* (app/main.py), callback dispatcher (app/callback.py) and risk scorer    *)
(* (src/detector.py) as state machines, with the engagement controller     *)
(* (app/agent.py) and the quality tracker (src/conversation_quality.py).   *)
(*                                                                         *)
(* Specifications                                                          *)
(*   SpecStore     threads calling SessionMemory operations concurrently,  *)
(*                 with the threading.Lock explicit                        *)
(*   SpecCallback  dispatch workers running concurrently                   *)
(*   SpecRetry     one dispatch worker, every outcome of a POST            *)
(*   SpecShould    should_send_callback over its arguments                 *)
(*   SpecRisk      analyze_message and reset_session on one session        *)
(*   Spec          the server: requests of a session handled one after     *)
(*                 the other, with the dispatch workers                    *)
(*   SpecOverlap   the server with overlapping requests and session expiry *)
(*   SpecDuration  get_engagement_duration as the clock advances           *)
(*   SpecPayload   build_final_output over its arguments                   *)
(*   SpecReply     get_reply called turn after turn on one session         *)
(*   SpecFault     process_message with calls of its stages raising        *)
(***************************************************************************)
EXTENDS Integers, Sequences, FiniteSets, TLC

\* ------------------------------------------------------------------------
\* Bounds of the model
\* ------------------------------------------------------------------------
MaxTime == 3601      \* the clock stops advancing here (seconds)
MaxInc == 3          \* session dicts ever created by the store
MaxMsgs == 2         \* messages appended to one session dict (store threads)

\* ------------------------------------------------------------------------
\* Program constants
\* ------------------------------------------------------------------------
SESSION_EXPIRY_SECONDS == 3600
CLEANUP_INTERVAL_SECONDS == 600
TickStep == 3601     \* granularity at which the model observes the clock

SessionIds == {"s1", "s2"}
StoreSessionIds == {"s1"}     \* the session the store threads work on
Threads == {"t1", "t2"}
WorkerIds == {"w1", "w2"}     \* threads send_callback_async can start
Senders == {"scammer", "agent"}
VarianceSamples == {55}      \* samples of random.randint(5, 55)
None == "None"

VARIABLES
    now,            \* datetime.now(timezone.utc), in seconds
    sessions,       \* SessionMemory._sessions: a dict, session id -> session dict
    next_inc,       \* identity given to the next session dict created
    last_cleanup,   \* SessionMemory._last_cleanup
    lock,           \* SessionMemory._lock: the thread holding it, or None
    hist,           \* history variable: per dict identity, results of mark_finalized
    thr,            \* store threads: operation in progress and its locals
    workers,        \* threads started by send_callback_async
    logfile,        \* callback_history.json: the list of records on disk
    profiles,       \* RiskAccumulator._profiles: session id -> RiskProfile
    pure,           \* a call of a pure function: its arguments and result
    quality,        \* ConversationQualityTracker._sessions: session id -> QualityMetrics
    req,            \* process_message coroutines: position and locals
    loop,           \* the event loop: the coroutine it is running, or None
    contexts,       \* EngagementController._contexts: session id -> context dict
    used_templates, \* ConversationQualityTracker._used_templates: session id -> set of indices
    store,          \* IntelligenceStore._store: session id -> the eight sets of a session
    detector        \* ScamDetector (app/detector.py): its six dicts keyed by session id

vars == <<now, sessions, next_inc, last_cleanup, lock, hist, thr, workers, logfile,
          profiles, pure, quality, req, loop, contexts, used_templates, store, detector>>

\* what the session store and its threads leave alone
callbackVars == <<workers, logfile>>
\* what get_reply, the extractor and the legacy detector keep of a session
agentVars == <<contexts, used_templates, store, detector>>
handlerVars == <<quality, req, loop, agentVars>>
notStore == <<callbackVars, profiles, pure, handlerVars>>
\* what the callback workers leave alone
storeVars == <<now, sessions, next_inc, last_cleanup, lock, hist>>
notCallback == <<storeVars, thr, profiles, pure, handlerVars>>
\* what the risk scorer leaves alone
notRisk == <<storeVars, thr, callbackVars, handlerVars>>

\* ------------------------------------------------------------------------
\* SessionMemory, as functions on the store value
\*   st = [sessions, next_inc, last_cleanup]
\* A session dict carries its object identity in field inc: a reference
\* obtained from ensure_session designates the dict with that identity, and
\* a write through the reference reaches the store only while that dict is
\* still the one stored under the session id.
\* ------------------------------------------------------------------------
St == [sessions |-> sessions, next_inc |-> next_inc, last_cleanup |-> last_cleanup]

\* a dict that starts with the finalization latch set: not the code
NewSessionDictFinalized(t, variance, inc) ==
    [ inc |-> inc,
      start_time |-> t,
      messages |-> << >>,
      scam_confirmed |-> FALSE,
      callback_sent |-> TRUE,
      final_submitted |-> TRUE,
      agent_response |-> None,
      turn_count |-> 0,
      duration_variance |-> variance ]

\* the dict ensure_session stores for a new session id (memory.py, lines 40-49)
NewSessionDict(t, variance, inc) ==
    [ inc |-> inc,
      start_time |-> t,
      messages |-> << >>,
      scam_confirmed |-> FALSE,
      callback_sent |-> FALSE,
      final_submitted |-> FALSE,
      agent_response |-> None,
      turn_count |-> 0,
      duration_variance |-> variance ]

Exists(st, sid) == sid \in DOMAIN st.sessions

CanAllocate(st) == st.next_inc <= MaxInc

\* _maybe_cleanup: at most every 10 minutes, drop the sessions whose
\* start_time is older than SESSION_EXPIRY_SECONDS.
\* the expiry threshold included: not the code
ExpiredAtThreshold(st, t) ==
    {sid \in DOMAIN st.sessions :
        st.sessions[sid].start_time <= t - SESSION_EXPIRY_SECONDS}

Expired(st, t) ==
    {sid \in DOMAIN st.sessions :
        st.sessions[sid].start_time < t - SESSION_EXPIRY_SECONDS}

CleanupDue(st, t) == ~(t - st.last_cleanup < CLEANUP_INTERVAL_SECONDS)

MaybeCleanup(st, t) ==
    IF ~CleanupDue(st, t)
    THEN st
    ELSE [st EXCEPT !.last_cleanup = t,
                    !.sessions = [sid \in (DOMAIN st.sessions) \ Expired(st, t) |->
                                     st.sessions[sid]]]

\* ensure_session with the membership test lost: the stored session is
\* initialised again on every call
EnsureSessionReinit(st, sid, t, variance) ==
    LET c == MaybeCleanup(st, t) IN
    [c EXCEPT !.sessions = [x \in (DOMAIN c.sessions) \cup {sid} |->
                              IF x = sid
                              THEN NewSessionDict(t, variance,
                                      IF Exists(c, sid) THEN c.sessions[sid].inc ELSE c.next_inc)
                              ELSE c.sessions[x]],
              !.next_inc = IF Exists(c, sid) THEN c.next_inc ELSE c.next_inc + 1]

\* ensure_session body (under the lock): cleanup, then create when missing.
EnsureSession(st, sid, t, variance) ==
    LET c == MaybeCleanup(st, t) IN
    IF Exists(c, sid)
    THEN c
    ELSE [c EXCEPT !.sessions = [x \in (DOMAIN c.sessions) \cup {sid} |->
                                    IF x = sid THEN NewSessionDict(t, variance, c.next_inc)
                                    ELSE c.sessions[x]],
                   !.next_inc = c.next_inc + 1]

\* ensure_session may create a dict: the model stops creating at MaxInc.
EnsureEnabled(st, sid, t) ==
    Exists(MaybeCleanup(st, t), sid) \/ CanAllocate(st)

\* mark_finalized body (under the lock): compare-and-set of final_submitted.
MarkFinalizedResult(st, sid) ==
    /\ Exists(st, sid)
    /\ ~st.sessions[sid].final_submitted

MarkFinalizedSet(st, sid) ==
    [st EXCEPT !.sessions[sid].final_submitted = TRUE,
               !.sessions[sid].callback_sent = TRUE]

\* cleanup_session: self._sessions.pop(session_id, None)
CleanupSession(st, sid) ==
    [st EXCEPT !.sessions = [x \in (DOMAIN st.sessions) \ {sid} |-> st.sessions[x]]]

\* get_session_count: len(self._sessions)
GetSessionCount(st) == Cardinality(DOMAIN st.sessions)

\* a write through a reference to the dict of identity ref
Live(st, sid, ref) == Exists(st, sid) /\ st.sessions[sid].inc = ref

SetStore(st) ==
    /\ sessions' = st.sessions
    /\ next_inc' = st.next_inc
    /\ last_cleanup' = st.last_cleanup

\* ------------------------------------------------------------------------
\* Store threads (SpecStore)
\* ------------------------------------------------------------------------
StoreOps == {"ensure_session", "add_message", "mark_scam_confirmed",
             "can_finalize", "mark_finalized", "set_agent_response",
             "cleanup_session", "get_session_count"}
\* operations that start with session = self.ensure_session(session_id)
EnsureOps == {"ensure_session", "add_message", "mark_scam_confirmed",
              "can_finalize", "set_agent_response"}

\* ref: identity of the dict the thread holds a reference to (0: none);
\* tmp: an integer local; ret: None, "True" or "False"
IdleThread == [pc |-> "idle", op |-> None, sid |-> None, arg |-> None,
               ref |-> 0, tmp |-> 0, ret |-> None]

\* mf_true: number of mark_finalized calls on the dict that returned True;
\* mf_false: some mark_finalized call on the dict returned False;
\* dispatches: number of send_callback_async calls made for the dict
NoHist == [mf_true |-> 0, mf_false |-> FALSE, dispatches |-> 0]

\* the history is kept for the dicts in the store
LiveIncs(st) == {st.sessions[sid].inc : sid \in DOMAIN st.sessions}
HistAfter(st) == [i \in LiveIncs(st) |-> IF i \in DOMAIN hist THEN hist[i] ELSE NoHist]

\* a thread enters an operation of the store
ThreadCall(t) ==
    /\ thr[t].pc = "idle"
    /\ \E op \in StoreOps, sid \in StoreSessionIds, arg \in Senders :
          thr' = [thr EXCEPT ![t] = [IdleThread EXCEPT !.pc = "acquire", !.op = op,
                     !.sid = sid,
                     !.arg = IF op = "add_message" THEN arg ELSE None]]
    /\ UNCHANGED <<now, sessions, next_inc, last_cleanup, lock, hist>>
    /\ UNCHANGED notStore

\* a with block that enters without waiting for the lock
LockNotTaken(t) == TRUE

\* with self._lock: threading.Lock is not reentrant, the thread waits until free
LockFree(t) == lock = None

ThreadAcquire(t) ==
    /\ thr[t].pc = "acquire"
    /\ LockFree(t)
    /\ lock' = t
    /\ thr' = [thr EXCEPT ![t].pc = "locked"]
    /\ UNCHANGED <<now, sessions, next_inc, last_cleanup, hist>>
    /\ UNCHANGED notStore

\* _maybe_cleanup entering "with self._lock" itself: not the code
AcquiresInsideCleanup(op) == op \in EnsureOps

\* whether the block an operation runs under the lock takes the lock again:
\* none does; _maybe_cleanup, the one method called from inside a with block
\* (line 37), is "called internally under lock" and takes none (lines 175-192)
AcquiresInside(op) == FALSE

\* a with self._lock entered inside the block waits for the lock like any other
InsideAcquired(t) == AcquiresInside(thr[t].op) => LockFree(t)

\* ensure_session, lines 36-50, under the lock
ThreadEnsureBody(t) ==
    /\ thr[t].pc = "locked"
    /\ thr[t].op \in EnsureOps
    /\ InsideAcquired(t)
    /\ EnsureEnabled(St, thr[t].sid, now)
    /\ \E v \in VarianceSamples :
          LET st == EnsureSession(St, thr[t].sid, now, v) IN
          /\ SetStore(st)
          /\ hist' = HistAfter(st)
          /\ thr' = [thr EXCEPT ![t].pc = "release",
                                ![t].ref = st.sessions[thr[t].sid].inc]
    /\ UNCHANGED <<now, lock>>
    /\ UNCHANGED notStore

\* mark_finalized, lines 133-137: the lookup and the read of final_submitted
ThreadMfCheck(t) ==
    /\ thr[t].pc = "locked"
    /\ thr[t].op = "mark_finalized"
    /\ InsideAcquired(t)
    /\ IF MarkFinalizedResult(St, thr[t].sid)
       THEN /\ thr' = [thr EXCEPT ![t].pc = "mf_set",
                                  ![t].ref = sessions[thr[t].sid].inc]
            /\ hist' = hist
       ELSE /\ thr' = [thr EXCEPT ![t].pc = "release", ![t].ret = "False"]
            /\ hist' = IF Exists(St, thr[t].sid)
                       THEN [hist EXCEPT ![sessions[thr[t].sid].inc].mf_false = TRUE]
                       ELSE hist
    /\ UNCHANGED <<now, sessions, next_inc, last_cleanup, lock>>
    /\ UNCHANGED notStore

\* mark_finalized, lines 138-140: the writes and return True
ThreadMfSet(t) ==
    /\ thr[t].pc = "mf_set"
    /\ IF Live(St, thr[t].sid, thr[t].ref)
       THEN SetStore(MarkFinalizedSet(St, thr[t].sid))
       ELSE UNCHANGED <<sessions, next_inc, last_cleanup>>
    /\ hist' = [hist EXCEPT ![thr[t].ref].mf_true = @ + 1]
    /\ thr' = [thr EXCEPT ![t].pc = "release", ![t].ret = "True"]
    /\ UNCHANGED <<now, lock>>
    /\ UNCHANGED notStore

\* cleanup_session, lines 196-197
ThreadCleanupSession(t) ==
    /\ thr[t].pc = "locked"
    /\ thr[t].op = "cleanup_session"
    /\ InsideAcquired(t)
    /\ SetStore(CleanupSession(St, thr[t].sid))
    /\ hist' = HistAfter(CleanupSession(St, thr[t].sid))
    /\ thr' = [thr EXCEPT ![t].pc = "release"]
    /\ UNCHANGED <<now, lock>>
    /\ UNCHANGED notStore

\* get_session_count, lines 201-202
ThreadGetSessionCount(t) ==
    /\ thr[t].pc = "locked"
    /\ thr[t].op = "get_session_count"
    /\ InsideAcquired(t)
    /\ thr' = [thr EXCEPT ![t].pc = "release", ![t].tmp = GetSessionCount(St)]
    /\ UNCHANGED <<now, sessions, next_inc, last_cleanup, lock, hist>>
    /\ UNCHANGED notStore

\* leaving the with block releases the lock; the locked operations return
ThreadRelease(t) ==
    /\ thr[t].pc = "release"
    /\ lock' = None
    /\ thr' = [thr EXCEPT ![t] =
                 IF thr[t].op \in EnsureOps \ {"ensure_session"}
                 THEN [thr[t] EXCEPT !.pc = "post"] ELSE IdleThread]
    /\ UNCHANGED <<now, sessions, next_inc, last_cleanup, hist>>
    /\ UNCHANGED notStore

\* the dict a thread's reference designates, updated by f when still stored
Deref(t) == sessions[thr[t].sid]
WriteRef(t, d) ==
    IF Live(St, thr[t].sid, thr[t].ref)
    THEN sessions' = [sessions EXCEPT ![thr[t].sid] = d]
    ELSE sessions' = sessions

\* add_message, lines 55-59 (a message is kept as its sender)
AppendMessage(d, sender) == [d EXCEPT !.messages = Append(@, sender)]
\* mark_scam_confirmed, line 110
MarkScamConfirmed(d) == [d EXCEPT !.scam_confirmed = TRUE]
\* set_agent_response, line 159
SetAgentResponse(d, response) == [d EXCEPT !.agent_response = response]

\* add_message, lines 55-59: session["messages"].append(...)
ThreadAddAppend(t) ==
    /\ thr[t].pc = "post"
    /\ thr[t].op = "add_message"
    /\ Live(St, thr[t].sid, thr[t].ref) => Len(sessions[thr[t].sid].messages) < MaxMsgs
    /\ WriteRef(t, AppendMessage(Deref(t), thr[t].arg))
    /\ thr' = [thr EXCEPT ![t] = IF thr[t].arg = "scammer"
                                 THEN [thr[t] EXCEPT !.pc = "am_read"] ELSE IdleThread]
    /\ UNCHANGED <<now, next_inc, last_cleanup, lock, hist>>
    /\ UNCHANGED notStore

\* add_message, line 61, right-hand side: session.get("turn_count", 0) + 1
\* (a dict no longer stored is not observable: its counter reads as 0)
ThreadAddRead(t) ==
    /\ thr[t].pc = "am_read"
    /\ thr' = [thr EXCEPT ![t].pc = "am_write",
                          ![t].tmp = IF Live(St, thr[t].sid, thr[t].ref)
                                     THEN sessions[thr[t].sid].turn_count + 1 ELSE 0]
    /\ UNCHANGED <<now, sessions, next_inc, last_cleanup, lock, hist>>
    /\ UNCHANGED notStore

\* add_message, line 61, the store into session["turn_count"]
ThreadAddWrite(t) ==
    /\ thr[t].pc = "am_write"
    /\ WriteRef(t, [Deref(t) EXCEPT !.turn_count = thr[t].tmp])
    /\ thr' = [thr EXCEPT ![t] = IdleThread]
    /\ UNCHANGED <<now, next_inc, last_cleanup, lock, hist>>
    /\ UNCHANGED notStore

\* mark_scam_confirmed, line 110
ThreadMarkScam(t) ==
    /\ thr[t].pc = "post"
    /\ thr[t].op = "mark_scam_confirmed"
    /\ WriteRef(t, MarkScamConfirmed(Deref(t)))
    /\ thr' = [thr EXCEPT ![t] = IdleThread]
    /\ UNCHANGED <<now, next_inc, last_cleanup, lock, hist>>
    /\ UNCHANGED notStore

\* set_agent_response, line 159
ThreadSetResponse(t) ==
    /\ thr[t].pc = "post"
    /\ thr[t].op = "set_agent_response"
    /\ WriteRef(t, SetAgentResponse(Deref(t), "reply"))
    /\ thr' = [thr EXCEPT ![t] = IdleThread]
    /\ UNCHANGED <<now, next_inc, last_cleanup, lock, hist>>
    /\ UNCHANGED notStore

\* can_finalize, line 124: a getter
ThreadCanFinalize(t) ==
    /\ thr[t].pc = "post"
    /\ thr[t].op = "can_finalize"
    /\ thr' = [thr EXCEPT ![t] = IdleThread]
    /\ UNCHANGED <<now, sessions, next_inc, last_cleanup, lock, hist>>
    /\ UNCHANGED notStore

\* the clock
Tick ==
    /\ now + TickStep <= MaxTime
    /\ now' = now + TickStep
    /\ UNCHANGED <<sessions, next_inc, last_cleanup, lock, hist, thr>>
    /\ UNCHANGED notStore

\* a thread slot of send_callback_async not started yet
NoWorker == [pc |-> "unstarted", sid |-> None, inc |-> 0, payload |-> None,
             attempt |-> 0, posts |-> 0, ok_posts |-> 0, slept |-> << >>,
             outcome |-> None, record |-> None, logs |-> << >>, result |-> None]

StoreInit ==
    /\ now = 0
    /\ sessions = << >>
    /\ next_inc = 1
    /\ last_cleanup = 0
    /\ lock = None
    /\ hist = << >>

CallbackIdle ==
    /\ workers = [w \in WorkerIds |-> NoWorker]
    /\ logfile = << >>

RiskIdle == profiles = << >>

ReqIds == {"r1", "r2"}        \* requests the server handles at a time

\* ScamDetector.__init__ (app/detector.py, lines 396-403)
NewDetector ==
    [session_scores |-> << >>, session_details |-> << >>, session_categories |-> << >>,
     session_message_count |-> << >>, session_intents |-> << >>, session_stages |-> << >>]

\* a coroutine slot with no request: the locals of process_message
IdleReq == [pc |-> "idle", sid |-> None, text |-> None, hlen |-> 0,
            scam_confirmed |-> FALSE, total_messages |-> 0, cum_score |-> 0,
            quality_met |-> FALSE, is_finalized |-> FALSE, payload |-> None,
            callback_queued |-> FALSE, reply |-> None]
HandlerIdle ==
    /\ quality = << >>
    /\ req = [r \in ReqIds |-> IdleReq]
    /\ loop = None
    /\ contexts = << >>
    /\ used_templates = << >>
    /\ store = << >>
    /\ detector = NewDetector

NoCall == [fn |-> None, args |-> << >>, done |-> FALSE, score |-> 0, flag |-> FALSE]
PureIdle == pure = NoCall

InitStore ==
    /\ StoreInit
    /\ thr = [t \in Threads |-> IdleThread]
    /\ CallbackIdle
    /\ RiskIdle
    /\ PureIdle
    /\ HandlerIdle

NextStore ==
    \/ Tick
    \/ \E t \in Threads : ThreadCall(t)
    \/ \E t \in Threads : ThreadAcquire(t)
    \/ \E t \in Threads : ThreadEnsureBody(t)
    \/ \E t \in Threads : ThreadMfCheck(t)
    \/ \E t \in Threads : ThreadMfSet(t)
    \/ \E t \in Threads : ThreadCleanupSession(t)
    \/ \E t \in Threads : ThreadGetSessionCount(t)
    \/ \E t \in Threads : ThreadRelease(t)
    \/ \E t \in Threads : ThreadAddAppend(t)
    \/ \E t \in Threads : ThreadAddRead(t)
    \/ \E t \in Threads : ThreadAddWrite(t)
    \/ \E t \in Threads : ThreadMarkScam(t)
    \/ \E t \in Threads : ThreadSetResponse(t)
    \/ \E t \in Threads : ThreadCanFinalize(t)

SpecStore == InitStore /\ [][NextStore]_vars

\* ------------------------------------------------------------------------
\* Claims on the session store
\* ------------------------------------------------------------------------

\* C1: among the mark_finalized calls made on one stored session dict, by any
\* threads, exactly one returns True; every other call returns False, and
\* once a call has returned True the latch is set so that later calls do too.
C1_OneWinner ==
    \A sid \in DOMAIN sessions :
        LET h == hist[sessions[sid].inc] IN
        /\ h.mf_true <= 1
        /\ h.mf_false => h.mf_true = 1
        /\ h.mf_true = 1 => sessions[sid].final_submitted

\* two callers raced on the same dict: one has won, the other got False
C1_Witness ==
    \E sid \in DOMAIN sessions, t \in Threads :
        /\ hist[sessions[sid].inc].mf_true = 1
        /\ thr[t].op = "mark_finalized" /\ thr[t].ret = "False"
        /\ thr[t].sid = sid

\* C4: for a session dict that stays in the store, no step of any store
\* operation turns scam_confirmed or final_submitted from true to false.
SameDict(sid) ==
    /\ sid \in DOMAIN sessions /\ sid \in DOMAIN sessions'
    /\ sessions[sid].inc = sessions'[sid].inc

C4_LatchesStay ==
    [][\A sid \in SessionIds : SameDict(sid) =>
          /\ sessions[sid].scam_confirmed => sessions'[sid].scam_confirmed
          /\ sessions[sid].final_submitted => sessions'[sid].final_submitted]_vars

\* both latches set, and messages and a response stored on the same dict
C4_Witness ==
    \E sid \in DOMAIN sessions :
        /\ sessions[sid].scam_confirmed /\ sessions[sid].final_submitted
        /\ Len(sessions[sid].messages) > 0
        /\ sessions[sid].agent_response # None

\* ------------------------------------------------------------------------
\* Callback dispatcher (app/callback.py)
\* ------------------------------------------------------------------------
MAX_RETRIES == 3
RETRY_DELAYS == <<1, 2, 4>>
LOG_CAP == 1000

\* what requests.post can do: answer with a status code, time out, fail with
\* another RequestException, or raise something else
StatusSamples == {200, 201, 202, 500}
PostOutcomes ==
    [kind : {"response"}, status : StatusSamples]
    \cup {[kind |-> "Timeout", status |-> 0],
          [kind |-> "RequestException", status |-> 0],
          [kind |-> "Exception", status |-> 0]}

\* _do_send, line 214
IsSuccess(o) == o.kind = "response" /\ o.status \in {200, 201, 204}

\* send_callback_async: a worker thread is started for (session_id, payload);
\* inc is the identity of the session dict the dispatch was made for
StartedWorker(sid, inc, payload) ==
    [NoWorker EXCEPT !.pc = "post", !.sid = sid, !.inc = inc, !.payload = payload]

FreeWorkers == {w \in WorkerIds : workers[w].pc = "unstarted"}

\* _log_callback, lines 287-294
LogRecord(sid, payload, o) ==
    [sessionId |-> sid, success |-> IsSuccess(o), responseStatus |-> o.status,
     responseText |-> IF o.kind = "response" THEN "body" ELSE o.kind,
     payload |-> payload]

\* _log_callback, lines 306-309
CapLog(l) == IF Len(l) > LOG_CAP THEN SubSeq(l, Len(l) - LOG_CAP + 1, Len(l)) ELSE l

\* _do_send, lines 207-212: one POST attempt, its outcome among outs
WorkerPost(w, outs) ==
    /\ workers[w].pc = "post"
    /\ \E o \in outs :
          workers' = [workers EXCEPT ![w].posts = @ + 1,
                                     ![w].ok_posts = IF IsSuccess(o) THEN @ + 1 ELSE @,
                                     ![w].outcome = o,
                                     ![w].pc = IF o.kind = "Exception" THEN "failed"
                                               ELSE "log_read"]
    /\ UNCHANGED logfile
    /\ UNCHANGED notCallback

\* _log_callback, lines 299-305: the history file is read
WorkerLogRead(w) ==
    /\ workers[w].pc = "log_read"
    /\ workers' = [workers EXCEPT ![w].logs = logfile, ![w].pc = "log_write"]
    /\ UNCHANGED logfile
    /\ UNCHANGED notCallback

\* _log_callback, lines 306-311: append, cap, rewrite the file; then
\* _send_with_retry, lines 174-176
WorkerLogWrite(w) ==
    /\ workers[w].pc = "log_write"
    /\ logfile' = CapLog(Append(workers[w].logs,
                                LogRecord(workers[w].sid, workers[w].payload,
                                          workers[w].outcome)))
    /\ workers' = [workers EXCEPT ![w].logs = << >>,
                                  ![w].outcome = None,
                                  ![w].pc = IF IsSuccess(workers[w].outcome)
                                            THEN "done" ELSE "failed",
                                  ![w].result = IF IsSuccess(workers[w].outcome)
                                                THEN "True" ELSE @]
    /\ UNCHANGED notCallback

\* _send_with_retry, lines 186-189 and 193-194: wait before the next attempt
\* a loop that goes round once more than MAX_RETRIES
RetryAllowedOffByOne(attempt) == attempt < MAX_RETRIES

RetryAllowed(attempt) == attempt < MAX_RETRIES - 1

WorkerSleep(w) ==
    /\ workers[w].pc = "failed"
    /\ RetryAllowed(workers[w].attempt)
    /\ workers' = [workers EXCEPT ![w].slept = Append(@, RETRY_DELAYS[workers[w].attempt + 1]),
                                  ![w].attempt = @ + 1,
                                  ![w].pc = "post"]
    /\ UNCHANGED logfile
    /\ UNCHANGED notCallback

\* _send_with_retry, lines 196-197: the loop is over
WorkerGiveUp(w) ==
    /\ workers[w].pc = "failed"
    /\ ~RetryAllowed(workers[w].attempt)
    /\ workers' = [workers EXCEPT ![w].pc = "done", ![w].result = "False"]
    /\ UNCHANGED logfile
    /\ UNCHANGED notCallback

\* SpecCallback: dispatches for arbitrary sessions, workers run concurrently
SamplePayloads == {"payload"}

CallbackSpawn(ws) ==
    /\ \E w \in FreeWorkers \cap ws, sid \in SessionIds, p \in SamplePayloads :
          workers' = [workers EXCEPT ![w] = StartedWorker(sid, 0, p)]
    /\ UNCHANGED logfile
    /\ UNCHANGED notCallback

InitCallback ==
    /\ StoreInit
    /\ thr = [t \in Threads |-> IdleThread]
    /\ CallbackIdle
    /\ RiskIdle
    /\ PureIdle
    /\ HandlerIdle

\* the outcomes the workers of SpecCallback meet
FewOutcomes ==
    {[kind |-> "response", status |-> 200], [kind |-> "response", status |-> 500],
     [kind |-> "Exception", status |-> 0]}

NextCallback ==
    \/ CallbackSpawn(WorkerIds)
    \/ \E w \in WorkerIds : WorkerPost(w, FewOutcomes)
    \/ \E w \in WorkerIds : WorkerLogRead(w)
    \/ \E w \in WorkerIds : WorkerLogWrite(w)
    \/ \E w \in WorkerIds : WorkerSleep(w)
    \/ \E w \in WorkerIds : WorkerGiveUp(w)

SpecCallback == InitCallback /\ [][NextCallback]_vars

\* SpecRetry: one dispatch, every outcome of a POST
NextRetry ==
    \/ CallbackSpawn({"w1"})
    \/ WorkerPost("w1", PostOutcomes)
    \/ WorkerLogRead("w1")
    \/ WorkerLogWrite("w1")
    \/ WorkerSleep("w1")
    \/ WorkerGiveUp("w1")

SpecRetry == InitCallback /\ [][NextRetry]_vars

\* C9: one dispatch makes at most MAX_RETRIES (3) POST attempts; it makes none
\* after a successful one; after a failed attempt it goes on while attempts
\* remain; it has waited 1 s before the 2nd and 1 s then 2 s before the 3rd.
C9_Retry ==
    \A w \in WorkerIds :
        LET k == workers[w] IN
        /\ k.posts <= 3
        /\ k.ok_posts <= 1
        /\ k.ok_posts = 1 => k.pc \in {"log_read", "log_write", "done"}
                              /\ (k.pc = "done" => k.result = "True")
        /\ k.pc # "unstarted" =>
              /\ k.posts = IF k.pc = "post" THEN k.attempt ELSE k.attempt + 1
              /\ Len(k.slept) = k.attempt
              /\ \A i \in 1..Len(k.slept) : i <= 2 /\ k.slept[i] = <<1, 2>>[i]
        /\ k.result = "False" => k.posts = 3 /\ k.ok_posts = 0

\* a dispatch whose three attempts all failed
C9_Witness ==
    \E w \in WorkerIds : workers[w].result = "False" /\ workers[w].slept = <<1, 2>>

\* a dispatch that succeeded on its second attempt and stopped
C9_WitnessSuccess ==
    \E w \in WorkerIds : workers[w].result = "True" /\ workers[w].slept = <<1>>

\* ------------------------------------------------------------------------
\* should_send_callback (app/callback.py)
\* ------------------------------------------------------------------------
MaxTurnArg == 14     \* largest turn_count passed to should_send_callback

\* the docstring's variant: normal send from turn 6
ShouldSendCallbackFrom6(scam_detected, turn_count, quality_met, is_finalized) ==
    IF is_finalized THEN FALSE
    ELSE IF turn_count >= 12 THEN TRUE
    ELSE scam_detected /\ turn_count >= 6 /\ quality_met

ShouldSendCallback(scam_detected, turn_count, quality_met, is_finalized) ==
    IF is_finalized THEN FALSE
    ELSE IF turn_count >= 12 THEN TRUE
    ELSE scam_detected /\ turn_count >= 8 /\ quality_met

ShouldArgs ==
    [scam_detected : BOOLEAN, turn_count : 0..MaxTurnArg,
     quality_met : BOOLEAN, is_finalized : BOOLEAN]

InitShould ==
    /\ StoreInit
    /\ thr = [t \in Threads |-> IdleThread]
    /\ CallbackIdle
    /\ RiskIdle
    /\ HandlerIdle
    /\ \E a \in ShouldArgs : pure = [NoCall EXCEPT !.fn = "should_send_callback", !.args = a]

ShouldCall ==
    /\ pure.fn = "should_send_callback"
    /\ ~pure.done
    /\ pure' = [pure EXCEPT !.done = TRUE,
                            !.flag = ShouldSendCallback(pure.args.scam_detected,
                                        pure.args.turn_count, pure.args.quality_met,
                                        pure.args.is_finalized)]
    /\ UNCHANGED <<storeVars, thr, callbackVars, profiles, handlerVars>>

SpecShould == InitShould /\ [][ShouldCall]_vars

MaxAnalyses == 4     \* non-empty messages analysed for one session (SpecRisk)

SCAM_THRESHOLD == 40

\* Messages. The regular expressions of the signal layers are data: each
\* text below is given the layer scores _score_layer computes for it.
TxtEmpty == ""
TxtBlank == "   "
TxtHello == "Hello"
TxtWeather == "How is the weather today"
TxtHurry == "please hurry"
TxtOtp == "share otp now"
TxtParcel == "Your parcel is held at customs"
TxtUrgentOtp == "URGENT: share the 6 digit OTP to unblock your SBI account within 2 hours or it will be suspended."

TxtLottery == "You won a lottery prize, pay the processing fee at http://bit.ly/win"
TxtVisit == "visit http://bad.xyz/in"
TxtPayUpi == "pay to scam@paytm"

RiskTexts ==
    {TxtEmpty, TxtBlank, TxtHello, TxtWeather, TxtHurry, TxtOtp, TxtParcel,
     TxtUrgentOtp, TxtLottery}

\* only the empty string taken as empty: not the code
IsBlankEmptyOnly(text) == text = TxtEmpty

\* analyze_message, line 413: not text or not text.strip()
IsBlank(text) == text \in {TxtEmpty, TxtBlank}

\* _is_pure_greeting: GREETING_ONLY matched on the stripped text
IsPureGreeting(text) == text = TxtHello

\* _score_layer over core_layers + auxiliary_layers: the layers with a
\* positive score, each with its score
LayerScores(text) ==
    CASE text = TxtHurry -> ("urgency" :> 10)
      [] text = TxtOtp -> ("otp_request" :> 45)
      [] text = TxtParcel -> ("authority_impersonation" :> 14) @@ ("courier" :> 20)
      [] text = TxtUrgentOtp ->
            ("urgency" :> 26) @@ ("authority_impersonation" :> 10)
            @@ ("otp_request" :> 42) @@ ("account_suspension" :> 16)
            @@ ("romance_scam" :> 14)
      [] text = TxtLottery ->
            ("payment_request" :> 38) @@ ("prize_lure" :> 34)
            @@ ("suspicious_url" :> 28) @@ ("loan_fraud" :> 16)
      [] text = TxtVisit -> ("suspicious_url" :> 26)
      [] text = TxtPayUpi -> ("authority_impersonation" :> 8) @@ ("upi_specific" :> 24)
      [] OTHER -> << >>

RECURSIVE SumOver(_, _)
SumOver(f, keys) ==
    IF keys = {} THEN 0
    ELSE LET k == CHOOSE x \in keys : TRUE IN f[k] + SumOver(f, keys \ {k})

\* ESCALATION_BONUSES, lines 284-292, and the lookup of lines 467-472
EscalationBonus(n) ==
    IF n >= 8 THEN 100
    ELSE IF n >= 7 THEN 85
    ELSE IF n >= 6 THEN 72
    ELSE IF n >= 5 THEN 60
    ELSE IF n >= 4 THEN 45
    ELSE IF n >= 3 THEN 28
    ELSE IF n >= 2 THEN 10
    ELSE 0

\* lines 475-478
RepeatBonus(counts) ==
    LET b == [k \in DOMAIN counts |->
                IF counts[k] = 2 THEN 6 ELSE IF counts[k] >= 3 THEN 12 ELSE 0]
    IN SumOver(b, DOMAIN counts)

\* _classify, lines 531-582
Classify(signals) ==
    IF "courier" \in signals THEN "courier"
    ELSE IF "investment" \in signals THEN "investment"
    ELSE IF "tech_support" \in signals THEN "tech_support"
    ELSE IF "job_fraud" \in signals THEN "job_fraud"
    ELSE IF "loan_fraud" \in signals THEN "loan_fraud"
    ELSE IF "insurance_fraud" \in signals THEN "insurance_fraud"
    ELSE IF "romance_scam" \in signals THEN "impersonation"
    ELSE IF "upi_specific" \in signals THEN "upi_fraud"
    ELSE IF "prize_lure" \in signals THEN "lottery"
    ELSE IF "authority_impersonation" \in signals THEN "impersonation"
    ELSE IF "otp_request" \in signals \/ "suspicious_url" \in signals THEN "phishing"
    ELSE IF "account_suspension" \in signals \/ "payment_request" \in signals THEN "bank_fraud"
    ELSE IF "legal_threat" \in signals THEN "impersonation"
    ELSE IF "identity_theft" \in signals THEN "phishing"
    ELSE "unknown"

\* RiskProfile, lines 52-64
NewProfile ==
    [ cumulative_score |-> 0,
      turn_scores |-> << >>,
      triggered_signals |-> {},
      signal_counts |-> << >>,
      scam_detected |-> FALSE,
      scam_type |-> "unknown",
      message_count |-> 0 ]

\* _get_profile, lines 507-511: created on first reference
GetProfile(ps, sid) == IF sid \in DOMAIN ps THEN ps[sid] ELSE NewProfile

PutProfile(ps, sid, p) ==
    [x \in (DOMAIN ps) \cup {sid} |-> IF x = sid THEN p ELSE ps[x]]

\* lines 454-461: the counters of the layers the message triggers
CountSignals(counts, scores) ==
    [k \in (DOMAIN counts) \cup (DOMAIN scores) |->
        IF k \in DOMAIN scores
        THEN (IF k \in DOMAIN counts THEN counts[k] ELSE 0) + 1
        ELSE counts[k]]

\* the two bonuses added only on a turn that triggers a signal: not the code
ScoreMessageBonusOnSignal(p, text) ==
    LET scores == LayerScores(text)
        turn_score == SumOver(scores, DOMAIN scores)
        counts == CountSignals(p.signal_counts, scores)
        signals == p.triggered_signals \cup DOMAIN scores
        bonus == IF scores = << >> THEN 0
                 ELSE EscalationBonus(Cardinality(signals)) + RepeatBonus(counts)
        cum == p.cumulative_score + turn_score + bonus
    IN [p EXCEPT !.signal_counts = counts,
                 !.triggered_signals = signals,
                 !.turn_scores = Append(@, turn_score),
                 !.cumulative_score = cum,
                 !.scam_detected = IF cum >= SCAM_THRESHOLD THEN TRUE ELSE @,
                 !.scam_type = IF cum >= SCAM_THRESHOLD THEN Classify(signals) ELSE @]

\* lines 425-489: the scoring of a non-empty message that is not a
\* suppressed greeting
ScoreMessage(p, text) ==
    LET scores == LayerScores(text)
        turn_score == SumOver(scores, DOMAIN scores)
        counts == CountSignals(p.signal_counts, scores)
        signals == p.triggered_signals \cup DOMAIN scores
        escalation_bonus == EscalationBonus(Cardinality(signals))
        repeat_bonus == RepeatBonus(counts)
        cum == p.cumulative_score + turn_score + escalation_bonus + repeat_bonus
    IN [p EXCEPT !.signal_counts = counts,
                 !.triggered_signals = signals,
                 !.turn_scores = Append(@, turn_score),
                 !.cumulative_score = cum,
                 !.scam_detected = IF cum >= SCAM_THRESHOLD THEN TRUE ELSE @,
                 !.scam_type = IF cum >= SCAM_THRESHOLD THEN Classify(signals) ELSE @]

\* a greeting branch that is taken on any turn and stores the 0.0 it returns
AnalyzeMessageGreetingResets(p, text) ==
    IF IsBlank(text)
    THEN [profile |-> p, score |-> p.cumulative_score, is_scam |-> p.scam_detected]
    ELSE LET q == [p EXCEPT !.message_count = @ + 1] IN
         IF IsPureGreeting(text)
         THEN [profile |-> [q EXCEPT !.turn_scores = Append(@, 0), !.cumulative_score = 0],
               score |-> 0, is_scam |-> FALSE]
         ELSE LET r == ScoreMessage(q, text) IN
              [profile |-> r, score |-> r.cumulative_score, is_scam |-> r.scam_detected]

\* analyze_message, lines 401-489, on the session's profile p: the profile
\* after the call and the pair returned
AnalyzeMessage(p, text) ==
    IF IsBlank(text)
    THEN [profile |-> p, score |-> p.cumulative_score, is_scam |-> p.scam_detected]
    ELSE LET q == [p EXCEPT !.message_count = @ + 1] IN
         IF q.message_count = 1 /\ IsPureGreeting(text)
         THEN [profile |-> [q EXCEPT !.turn_scores = Append(@, 0)],
               score |-> 0, is_scam |-> FALSE]
         ELSE LET r == ScoreMessage(q, text) IN
              [profile |-> r, score |-> r.cumulative_score, is_scam |-> r.scam_detected]

\* SpecRisk: analyze_message and reset_session called on one session
RiskSession == "s1"

RiskAnalyze ==
    /\ \E text \in RiskTexts :
          LET p == GetProfile(profiles, RiskSession)
              a == AnalyzeMessage(p, text) IN
          /\ IsBlank(text) \/ p.message_count < MaxAnalyses
          /\ profiles' = PutProfile(profiles, RiskSession, a.profile)
          /\ pure' = [NoCall EXCEPT !.fn = "analyze_message", !.args = <<text>>,
                                    !.done = TRUE, !.score = a.score, !.flag = a.is_scam]
    /\ UNCHANGED notRisk

\* reset_session, lines 502-505
RiskReset ==
    /\ RiskSession \in DOMAIN profiles
    /\ profiles' = [x \in (DOMAIN profiles) \ {RiskSession} |-> profiles[x]]
    /\ pure' = [NoCall EXCEPT !.fn = "reset_session"]
    /\ UNCHANGED notRisk

InitRisk ==
    /\ StoreInit
    /\ thr = [t \in Threads |-> IdleThread]
    /\ CallbackIdle
    /\ RiskIdle
    /\ PureIdle
    /\ HandlerIdle

NextRisk == RiskAnalyze \/ RiskReset

SpecRisk == InitRisk /\ [][NextRisk]_vars

\* C5: across any analyze_message call on a session, whatever the message
\* (empty, greeting, scoring), the profile's cumulative_score does not
\* decrease.
C5_ScoreMonotone ==
    [][\A sid \in DOMAIN profiles :
          (sid \in DOMAIN profiles' /\ pure'.fn = "analyze_message") =>
              profiles'[sid].cumulative_score >= profiles[sid].cumulative_score]_vars

\* a session with a positive score has just been sent a greeting and then an
\* empty message, and the score is still there
C5_Witness ==
    /\ RiskSession \in DOMAIN profiles
    /\ profiles[RiskSession].cumulative_score > 0
    /\ profiles[RiskSession].message_count >= 3
    /\ 0 \in {profiles[RiskSession].turn_scores[i] :
                 i \in 2..Len(profiles[RiskSession].turn_scores)}
    /\ pure.fn = "analyze_message" /\ pure.args = <<TxtEmpty>>

\* ------------------------------------------------------------------------
\* Conversation quality (src/conversation_quality.py) as get_reply drives it
\* ------------------------------------------------------------------------
MIN_TURN_COUNT == 8
MIN_QUESTIONS_ASKED == 5
MIN_INVESTIGATIVE_QUESTIONS == 3
MIN_RED_FLAGS == 5
MIN_ELICITATION_ATTEMPTS == 5

\* QualityMetrics, lines 37-45
NewQuality ==
    [ turn_count |-> 0,
      questions_asked |-> 0,
      investigative_questions |-> 0,
      red_flags_identified |-> {},
      elicitation_attempts |-> 0 ]

\* get_metrics, lines 269-275: created on first reference
GetQuality(qs, sid) == IF sid \in DOMAIN qs THEN qs[sid] ELSE NewQuality

PutQuality(qs, sid, m) ==
    [x \in (DOMAIN qs) \cup {sid} |-> IF x = sid THEN m ELSE qs[x]]

\* thresholds_met without the red flags: not the code
ThresholdsMetButRedFlags(m) ==
    /\ m.turn_count >= MIN_TURN_COUNT
    /\ m.questions_asked >= MIN_QUESTIONS_ASKED
    /\ m.investigative_questions >= MIN_INVESTIGATIVE_QUESTIONS
    /\ m.elicitation_attempts >= MIN_ELICITATION_ATTEMPTS

\* thresholds_met, lines 303-312
ThresholdsMet(m) ==
    /\ m.turn_count >= MIN_TURN_COUNT
    /\ m.questions_asked >= MIN_QUESTIONS_ASKED
    /\ m.investigative_questions >= MIN_INVESTIGATIVE_QUESTIONS
    /\ Cardinality(m.red_flags_identified) >= MIN_RED_FLAGS
    /\ m.elicitation_attempts >= MIN_ELICITATION_ATTEMPTS

\* The replies get_reply can emit, by what the tracker records for them:
\*   "statement"  no question mark, no investigative or elicitation keyword
\*   "probe"      a question such as "What is the reference number?", which
\*                holds an investigative and an elicitation keyword
ReplyKinds == {"statement", "probe"}

\* get_reply, lines 487 and 545-579: record_turn, then what is recorded for
\* the reply and the red flags taken from the detected signals
RecordReply(m, kind, detected_signals) ==
    LET probe == IF kind = "probe" THEN 1 ELSE 0 IN
    [m EXCEPT !.turn_count = @ + 1,
              !.questions_asked = @ + probe,
              !.investigative_questions = @ + probe,
              !.elicitation_attempts = @ + probe,
              !.red_flags_identified = @ \cup detected_signals]

\* ------------------------------------------------------------------------
\* Request handler (app/main.py, process_message) and the server (Spec)
\* ------------------------------------------------------------------------
MaxTurns == 12       \* valid requests served for one session id

REPLY_REPEAT == "Sorry, I didn't hear you clearly. Can you repeat that?"

\* request.sessionId and request.message.text as the clients send them; the
\* conversationHistory is an alternation scammer, user, ... of hlen messages
\* whose scammer texts are the current text
HandlerSessionIds == {"s1"}
RequestSessionIds == HandlerSessionIds \cup {""}
HistoryLens == {0, 7, 11}
ScammerMessages(hlen) == (hlen + 1) \div 2

\* a session's conversation is small talk throughout or a scam throughout
ClientTexts(sid) ==
    LET p == GetProfile(profiles, sid) IN
    IF p.message_count = 0 THEN {TxtBlank, TxtWeather, TxtUrgentOtp}
    ELSE IF p.triggered_signals = {} THEN {TxtBlank, TxtWeather}
    ELSE {TxtBlank, TxtUrgentOtp}

\* the outcomes of a POST the workers of Spec meet
HandlerOutcomes ==
    {[kind |-> "response", status |-> 200], [kind |-> "response", status |-> 500]}

\* add_message, lines 52-61, run without interruption
AddMessage(d, sender) ==
    LET a == AppendMessage(d, sender) IN
    IF sender = "scammer" THEN [a EXCEPT !.turn_count = @ + 1] ELSE a

\* can_finalize, line 124, on the dict ensure_session returned
CanFinalizeAlways(d) == TRUE

CanFinalize(d) == ~d.final_submitted

\* get_raw_duration and get_engagement_duration, lines 74-95
GetEngagementDuration(d, t) ==
    LET delta == t - d.start_time
        raw == IF delta > 0 THEN delta ELSE 0
        variance == d.duration_variance IN
    IF raw < 180 THEN 185 + variance
    ELSE raw + (IF variance < 30 THEN variance ELSE 30)

\* get_total_messages_exchanged, lines 97-103
GetTotalMessagesExchanged(d) == IF Len(d.messages) > 10 THEN Len(d.messages) ELSE 10

\* The intelligence dict handed to build_final_output: a dict from some of
\* the eight keys to a value, None or a list.
IntelKeys == {"phoneNumbers", "bankAccounts", "upiIds", "phishingLinks",
              "emailAddresses", "caseIds", "policyNumbers", "orderNumbers"}
IdKeys == {"caseIds", "policyNumbers", "orderNumbers"}
NoneValue == [kind |-> "None", items |-> << >>]
List(items) == [kind |-> "list", items |-> items]

\* intelligence.get(key, [])
IntelGet(intelligence, key) ==
    IF key \in DOMAIN intelligence THEN intelligence[key] ELSE List(<< >>)

\* bool(value) of None or a list
Truthy(value) == value.kind = "list" /\ Len(value.items) > 0

\* value or []
OrEmptyList(value) == IF Truthy(value) THEN value ELSE List(<< >>)

\* intelligence_store.get_intelligence for a conversation naming no
\* identifier (extractor.py, lines 205-214)
NoIntelligence ==
    [k \in {"phoneNumbers", "bankAccounts", "upiIds", "phishingLinks", "emailAddresses"}
        |-> List(<< >>)]

Raised(exception) == [exception |-> exception]
HasRaised(result) == "exception" \in DOMAIN result

\* _build_agent_notes (callback.py, lines 93-141): len() is taken of the
\* three id entries whatever they are, and len(None) raises TypeError
BuildAgentNotes(intel) ==
    IF \E k \in IdKeys : IntelGet(intel, k).kind = "None"
    THEN Raised("TypeError")
    ELSE [notes |-> "built"]

\* build_final_output keeping the caller's duration (not the code)
BuildFinalOutputNoFloor(session_id, scam_detected, scam_type, intelligence, total_msgs, duration, agent_notes, cum_score) ==
    LET safe_messages == IF total_msgs > 10 THEN total_msgs ELSE 10
        safe_duration == duration
        confidence == IF cum_score < 0 THEN 0 ELSE IF cum_score > 100 THEN 100 ELSE cum_score
        built == IF agent_notes # "" THEN [notes |-> agent_notes]
                 ELSE BuildAgentNotes(intelligence)
    IN IF HasRaised(built) THEN built
       ELSE [ sessionId |-> session_id,
              scamDetected |-> scam_detected,
              scamType |-> scam_type,
              confidenceLevel |-> confidence,
              totalMessagesExchanged |-> safe_messages,
              engagementDurationSeconds |-> safe_duration,
              extractedIntelligence |->
                  [k \in IntelKeys |-> OrEmptyList(IntelGet(intelligence, k))],
              engagementMetrics |->
                  [totalMessagesExchanged |-> safe_messages,
                   engagementDurationSeconds |-> safe_duration],
              agentNotes |-> built.notes ]

\* build_final_output (callback.py, lines 30-90). confidenceLevel is kept in
\* hundredths (0..100 for 0.0..1.0); stage and tactics, which only enter the
\* text of the built notes, are left out.
BuildFinalOutput(session_id, scam_detected, scam_type, intelligence, total_msgs, duration, agent_notes, cum_score) ==
    LET safe_messages == IF total_msgs > 10 THEN total_msgs ELSE 10
        safe_duration == IF duration > 190 THEN duration ELSE 190
        confidence == IF cum_score < 0 THEN 0 ELSE IF cum_score > 100 THEN 100 ELSE cum_score
        built == IF agent_notes # "" THEN [notes |-> agent_notes]
                 ELSE BuildAgentNotes(intelligence)
    IN IF HasRaised(built) THEN built
       ELSE [ sessionId |-> session_id,
              scamDetected |-> scam_detected,
              scamType |-> scam_type,
              confidenceLevel |-> confidence,
              totalMessagesExchanged |-> safe_messages,
              engagementDurationSeconds |-> safe_duration,
              extractedIntelligence |->
                  [k \in IntelKeys |-> OrEmptyList(IntelGet(intelligence, k))],
              engagementMetrics |->
                  [totalMessagesExchanged |-> safe_messages,
                   engagementDurationSeconds |-> safe_duration],
              agentNotes |-> built.notes ]

\* what the worker threads and the audit log keep of a payload
Posted(payload) ==
    [sessionId |-> payload.sessionId, scamDetected |-> payload.scamDetected]

\* history replay, lines 136-143: the scammer messages of the history go
\* through analyze_message
RECURSIVE Replay(_, _, _)
Replay(p, text, n) ==
    IF n = 0 THEN p ELSE Replay(AnalyzeMessage(p, text).profile, text, n - 1)

\* A coroutine runs when the event loop is free or is already running it.
CanRun(r) == loop \in {None, r}

\* lines 102-122: a request arrives and is validated. The server has the
\* coroutine slots rs and takes the first idle one; the clients send
\* histories of the lengths lens and at most turns valid requests a session.
HandlerReceive(r, rs, lens, turns) ==
    /\ req[r].pc = "idle"
    /\ loop = None
    /\ r = CHOOSE x \in rs : req[x].pc = "idle"
    /\ \E sid \in RequestSessionIds, hlen \in lens :
       \E text \in ClientTexts(sid) :
          IF sid = "" \/ IsBlank(text)
          THEN req' = [req EXCEPT ![r] = [IdleReq EXCEPT !.pc = "reject", !.sid = sid,
                                             !.text = text, !.hlen = hlen,
                                             !.reply = REPLY_REPEAT]]
          ELSE /\ GetQuality(quality, sid).turn_count < turns
               /\ req' = [req EXCEPT ![r] = [IdleReq EXCEPT !.pc = "turn", !.sid = sid,
                                                !.text = text, !.hlen = hlen]]
    /\ loop' = r
    /\ UNCHANGED <<storeVars, thr, callbackVars, profiles, pure, quality, agentVars>>

\* lines 124-199: session management, history replay, risk analysis, reply.
\* The reply is kept by its kind; its text and what get_reply keeps of the
\* session (contexts, used_templates) are followed in SpecReply.
HandlerTurn(r) ==
    /\ req[r].pc = "turn"
    /\ loop = r
    /\ EnsureEnabled(St, req[r].sid, now)
    /\ \E v \in VarianceSamples, kind \in ReplyKinds :
          LET sid == req[r].sid
              st1 == EnsureSession(St, sid, now, v)
              d1 == st1.sessions[sid]
              is_fresh == Len(d1.messages) = 0
              p0 == GetProfile(profiles, sid)
              p1 == IF is_fresh
                    THEN Replay(p0, req[r].text, ScammerMessages(req[r].hlen))
                    ELSE p0
              d2 == AddMessage(d1, "scammer")
              a == AnalyzeMessage(p1, req[r].text)
              d3 == IF a.is_scam /\ ~d2.scam_confirmed THEN MarkScamConfirmed(d2) ELSE d2
              m == RecordReply(GetQuality(quality, sid), kind, a.profile.triggered_signals)
              d4 == SetAgentResponse(AddMessage(d3, "agent"), kind)
              st2 == [st1 EXCEPT !.sessions[sid] = d4]
          IN /\ SetStore(st2)
             /\ hist' = HistAfter(st2)
             /\ profiles' = PutProfile(profiles, sid, a.profile)
             /\ quality' = PutQuality(quality, sid, m)
             /\ req' = [req EXCEPT ![r].pc = "check",
                                   ![r].cum_score = a.score,
                                   ![r].scam_confirmed = d3.scam_confirmed,
                                   ![r].total_messages = req[r].hlen + 1,
                                   ![r].reply = kind]
    /\ UNCHANGED <<now, lock, thr, callbackVars, pure, loop, agentVars>>

\* main.py has no await between can_finalize (line 207) and mark_finalized
\* (line 241)
SuspendsAfterCheckAwait == TRUE

SuspendsAfterCheck == FALSE

\* lines 240-244: mark_finalized, then send_callback_async
DispatchOrderSendFirst == <<"send", "mark">>

DispatchOrder == <<"mark", "send">>

AfterStep(pc) == IF pc = DispatchOrder[1] THEN DispatchOrder[2] ELSE "sleep"

\* the flag the session holds, without the presumption: not the code
EffectiveScamDetectedConfirmedOnly(scam_confirmed, total_messages) == scam_confirmed

\* effective_scam_detected, line 216
EffectiveScamDetected(scam_confirmed, total_messages) ==
    scam_confirmed \/ total_messages >= 12

\* lines 206-238: the send decision and the payload
HandlerCheck(r) ==
    /\ req[r].pc = "check"
    /\ loop = r
    /\ EnsureEnabled(St, req[r].sid, now)
    /\ \E v \in VarianceSamples :
          LET sid == req[r].sid
              st1 == EnsureSession(St, sid, now, v)
              d == st1.sessions[sid]
              quality_met == ThresholdsMet(GetQuality(quality, sid))
              is_finalized == ~CanFinalize(d)
              send == ShouldSendCallback(req[r].scam_confirmed, req[r].total_messages,
                                         quality_met, is_finalized)
              profile == GetProfile(profiles, sid)
              payload == BuildFinalOutput(sid,
                             EffectiveScamDetected(req[r].scam_confirmed, req[r].total_messages),
                             IF profile.scam_type # "unknown" THEN profile.scam_type
                             ELSE "bank_fraud",
                             NoIntelligence,
                             GetTotalMessagesExchanged(d),
                             GetEngagementDuration(d, now),
                             "notes",
                             req[r].cum_score)
          IN /\ SetStore(st1)
             /\ hist' = HistAfter(st1)
             /\ req' = [req EXCEPT ![r].quality_met = quality_met,
                                   ![r].is_finalized = is_finalized,
                                   ![r].payload = IF send THEN payload ELSE None,
                                   ![r].pc = IF send THEN DispatchOrder[1] ELSE "sleep"]
             /\ loop' = IF send /\ SuspendsAfterCheck THEN None ELSE r
    /\ UNCHANGED <<now, lock, thr, callbackVars, profiles, pure, quality, agentVars>>

\* line 241: memory.mark_finalized(session_id), its result dropped
HandlerMark(r) ==
    /\ req[r].pc = "mark"
    /\ CanRun(r)
    /\ LET sid == req[r].sid IN
       IF MarkFinalizedResult(St, sid)
       THEN /\ SetStore(MarkFinalizedSet(St, sid))
            /\ hist' = [hist EXCEPT ![sessions[sid].inc].mf_true = @ + 1]
       ELSE /\ UNCHANGED <<sessions, next_inc, last_cleanup>>
            /\ hist' = IF Exists(St, sid)
                       THEN [hist EXCEPT ![sessions[sid].inc].mf_false = TRUE]
                       ELSE hist
    /\ req' = [req EXCEPT ![r].pc = AfterStep("mark")]
    /\ loop' = r
    /\ UNCHANGED <<now, lock, thr, callbackVars, profiles, pure, quality, agentVars>>

\* lines 244-245: send_callback_async(session_id, payload) starts the worker
HandlerSend(r) ==
    /\ req[r].pc = "send"
    /\ CanRun(r)
    /\ LET sid == req[r].sid
           inc == IF Exists(St, sid) THEN sessions[sid].inc ELSE 0 IN
       /\ FreeWorkers # {}
       /\ workers' = [workers EXCEPT ![CHOOSE w \in FreeWorkers : TRUE] =
                         StartedWorker(sid, inc, Posted(req[r].payload))]
       /\ hist' = IF Exists(St, sid)
                  THEN [hist EXCEPT ![inc].dispatches = @ + 1]
                  ELSE hist
    /\ req' = [req EXCEPT ![r].pc = AfterStep("send"), ![r].callback_queued = TRUE]
    /\ loop' = r
    /\ UNCHANGED <<now, sessions, next_inc, last_cleanup, lock, thr, logfile,
                   profiles, pure, quality, agentVars>>

\* lines 264-269: await asyncio.sleep(remaining_jitter), taken when more than
\* 20 ms remain; the coroutine keeps only what the return needs
HandlerSleep(r) ==
    /\ req[r].pc = "sleep"
    /\ loop = r
    /\ req' = [req EXCEPT ![r] = [IdleReq EXCEPT !.pc = "asleep", !.sid = req[r].sid,
                                      !.reply = req[r].reply]]
    /\ loop' = None
    /\ UNCHANGED <<storeVars, thr, callbackVars, profiles, pure, quality, agentVars>>

\* lines 114-117 and 271: the response is returned
HandlerReturn(r) ==
    /\ \/ req[r].pc \in {"reject", "sleep"} /\ loop = r
       \/ req[r].pc = "asleep" /\ loop = None
    /\ req' = [req EXCEPT ![r] = IdleReq]
    /\ loop' = None
    /\ UNCHANGED <<storeVars, thr, callbackVars, profiles, pure, quality, agentVars>>

Init ==
    /\ StoreInit
    /\ thr = [t \in Threads |-> IdleThread]
    /\ CallbackIdle
    /\ RiskIdle
    /\ PureIdle
    /\ HandlerIdle

\* Spec: the server handling the requests of a session one after the other,
\* within the session's lifetime
Next ==
    \/ HandlerReceive("r1", {"r1"}, HistoryLens, MaxTurns)
    \/ HandlerTurn("r1")
    \/ HandlerCheck("r1")
    \/ HandlerMark("r1")
    \/ HandlerSend("r1")
    \/ HandlerSleep("r1")
    \/ HandlerReturn("r1")
    \/ \E w \in WorkerIds : WorkerPost(w, HandlerOutcomes)
    \/ \E w \in WorkerIds : WorkerLogRead(w)
    \/ \E w \in WorkerIds : WorkerLogWrite(w)
    \/ \E w \in WorkerIds : WorkerSleep(w)
    \/ \E w \in WorkerIds : WorkerGiveUp(w)

Spec == Init /\ [][Next]_vars

\* SpecOverlap: requests of a session that overlap, one starting while
\* another is in its jitter sleep, and a session old enough to be reaped;
\* every request carries a long history
MaxOverlapTurns == 2
LongHistory == {11}

NextOverlap ==
    \/ Tick
    \/ \E r \in ReqIds : HandlerReceive(r, ReqIds, LongHistory, MaxOverlapTurns)
    \/ \E r \in ReqIds : HandlerTurn(r)
    \/ \E r \in ReqIds : HandlerCheck(r)
    \/ \E r \in ReqIds : HandlerMark(r)
    \/ \E r \in ReqIds : HandlerSend(r)
    \/ \E r \in ReqIds : HandlerSleep(r)
    \/ \E r \in ReqIds : HandlerReturn(r)
    \/ \E w \in WorkerIds : WorkerPost(w, HandlerOutcomes)
    \/ \E w \in WorkerIds : WorkerLogRead(w)
    \/ \E w \in WorkerIds : WorkerLogWrite(w)
    \/ \E w \in WorkerIds : WorkerSleep(w)
    \/ \E w \in WorkerIds : WorkerGiveUp(w)

SpecOverlap == Init /\ [][NextOverlap]_vars

\* ------------------------------------------------------------------------
\* Claims on the dispatch of the callback
\* ------------------------------------------------------------------------
Started(w) == workers[w].pc # "unstarted"

\* the workers started for the dict now stored under sid
WorkersOf(sid) ==
    {w \in WorkerIds : Started(w) /\ workers[w].sid = sid
                       /\ Live(St, sid, workers[w].inc)}

\* a handler is between the arrival of a request and the end of its pipeline
MidTurn(r) == req[r].pc \in {"turn", "check", "mark", "send"}

C3_MarkBeforeSend ==
    /\ \A r \in ReqIds :
          req[r].pc = "send" =>
              /\ Exists(St, req[r].sid)
              /\ sessions[req[r].sid].final_submitted
    /\ \A sid \in DOMAIN sessions :
          WorkersOf(sid) # {} => sessions[sid].final_submitted

\* the worker has just been started by a handler that marked the session
C3_Witness ==
    \E r \in ReqIds, w \in WorkerIds :
        /\ req[r].pc = "sleep" /\ req[r].callback_queued
        /\ w \in WorkersOf(req[r].sid)
        /\ workers[w].pc = "post" /\ workers[w].posts = 0
        /\ hist[sessions[req[r].sid].inc].mf_true = 1

\* C7: a turn dispatches only when the turn_count the store holds for the
\* session is at least 12, or the scam is confirmed, that turn_count is at
\* least 8 and the quality thresholds are met.
C7_DispatchGate ==
    \A r \in ReqIds :
        (req[r].callback_queued /\ Exists(St, req[r].sid)) =>
            LET d == sessions[req[r].sid] IN
            \/ d.turn_count >= 12
            \/ /\ d.scam_confirmed
               /\ d.turn_count >= 8
               /\ ThresholdsMet(GetQuality(quality, req[r].sid))

\* C8: once the turn that stores a session's 12th scammer message is over, a
\* callback has been dispatched for the session, and never more than one.
C8_DispatchedByTurn12 ==
    \A sid \in DOMAIN sessions :
        /\ hist[sessions[sid].inc].dispatches <= 1
        /\ (sessions[sid].turn_count >= 12
            /\ \A r \in ReqIds : req[r].sid = sid => ~MidTurn(r))
              => hist[sessions[sid].inc].dispatches = 1

C11_Success2xx ==
    /\ \A i \in 1..Len(logfile) :
          logfile[i].success <=> logfile[i].responseStatus \in 200..299
    /\ \A w \in WorkerIds :
          workers[w].pc \in {"log_read", "log_write"} =>
              (IsSuccess(workers[w].outcome) <=>
                  (workers[w].outcome.kind = "response"
                   /\ workers[w].outcome.status \in 200..299))

\* ------------------------------------------------------------------------
\* Claims on the risk scorer
\* ------------------------------------------------------------------------

\* C12: when the first non-empty message analysed for a session is a pure
\* greeting, analyze_message returns (0, false) and leaves cumulative_score 0
\* and scam_detected false, and counts the message; a greeting analysed
\* later changes the profile as a message without signals does.
C12_FirstGreeting ==
    [][(pure'.fn = "analyze_message" /\ IsPureGreeting(pure'.args[1])) =>
          LET p == GetProfile(profiles, RiskSession)
              q == profiles'[RiskSession] IN
          IF p.message_count = 0
          THEN /\ pure'.score = 0 /\ ~pure'.flag
               /\ q.cumulative_score = 0 /\ ~q.scam_detected
               /\ q.message_count = 1
          ELSE /\ q = AnalyzeMessage(p, TxtWeather).profile
               /\ pure'.score = q.cumulative_score
               /\ pure'.flag = q.scam_detected]_vars

\* a greeting has been analysed after scoring messages, and the score stands
C12_Witness ==
    /\ pure.fn = "analyze_message" /\ pure.args = <<TxtHello>>
    /\ RiskSession \in DOMAIN profiles
    /\ profiles[RiskSession].message_count >= 2
    /\ profiles[RiskSession].turn_scores[1] = 0
    /\ profiles[RiskSession].cumulative_score > 0
    /\ pure.score = profiles[RiskSession].cumulative_score

\* C13: once scam_detected is true for a session, no later analyze_message
\* call changes the profile's scam_type.
C13_ScamTypeLatched ==
    [][(pure'.fn = "analyze_message"
        /\ RiskSession \in DOMAIN profiles
        /\ profiles[RiskSession].scam_detected) =>
          profiles'[RiskSession].scam_type = profiles[RiskSession].scam_type]_vars

\* ------------------------------------------------------------------------
\* get_engagement_duration over a session's lifetime (SpecDuration)
\* ------------------------------------------------------------------------
MaxRaw == 190        \* the clock of SpecDuration stops here (seconds)

DurationVariances == {5, 30, 55}   \* samples of random.randint(5, 55)
DurationSession == "s1"

\* a session created at time 0
InitDuration ==
    /\ now = 0
    /\ \E v \in DurationVariances :
          sessions = (DurationSession :> NewSessionDict(0, v, 1))
    /\ next_inc = 2
    /\ last_cleanup = 0
    /\ lock = None
    /\ hist = (1 :> NoHist)
    /\ thr = [t \in Threads |-> IdleThread]
    /\ CallbackIdle
    /\ RiskIdle
    /\ PureIdle
    /\ HandlerIdle

\* a second passes
DurationTick ==
    /\ now < MaxRaw
    /\ now' = now + 1
    /\ UNCHANGED <<sessions, next_inc, last_cleanup, lock, hist, thr>>
    /\ UNCHANGED notStore

\* memory.get_engagement_duration(session_id), lines 80-95
DurationCall ==
    /\ EnsureEnabled(St, DurationSession, now)
    /\ \E v \in VarianceSamples :
          LET st == EnsureSession(St, DurationSession, now, v)
              d == st.sessions[DurationSession] IN
          /\ SetStore(st)
          /\ hist' = HistAfter(st)
          /\ pure' = [NoCall EXCEPT !.fn = "get_engagement_duration",
                                    !.args = <<now - d.start_time, d.duration_variance>>,
                                    !.done = TRUE,
                                    !.score = GetEngagementDuration(d, now)]
    /\ UNCHANGED <<now, lock, thr, callbackVars, profiles, handlerVars>>

NextDuration == DurationTick \/ DurationCall

SpecDuration == InitDuration /\ [][NextDuration]_vars

\* C14: for one session, a call of get_engagement_duration made later (at a
\* larger raw duration) never returns less than an earlier call.
C14_DurationMonotone ==
    [][(pure.fn = "get_engagement_duration" /\ pure'.fn = "get_engagement_duration")
          => pure'.score >= pure.score]_vars

\* C15: get_engagement_duration returns at least 190: 185 + variance when
\* raw < 180, raw + min(variance, 30) otherwise.
C15_DurationFloor ==
    pure.fn = "get_engagement_duration" =>
        LET raw == pure.args[1]
            variance == pure.args[2] IN
        /\ pure.score >= 190
        /\ pure.score = IF raw < 180 THEN 185 + variance
                        ELSE raw + (IF variance < 30 THEN variance ELSE 30)

\* ------------------------------------------------------------------------
\* build_final_output as a function of its arguments (SpecPayload)
\* ------------------------------------------------------------------------
MaxIntelKeys == 2    \* keys an intelligence argument holds at most

IntelValues == {NoneValue, List(<< >>), List(<<"x">>)}
IntelInputs ==
    UNION {[S -> IntelValues] : S \in {T \in SUBSET IntelKeys : Cardinality(T) <= MaxIntelKeys}}
PayloadArgs ==
    [intelligence : IntelInputs, total_messages : {3, 10, 15},
     duration_seconds : {0, 190, 250}, agent_notes : {"", "notes"},
     cum_score : {-5, 45, 150}]

InitPayload ==
    /\ StoreInit
    /\ thr = [t \in Threads |-> IdleThread]
    /\ CallbackIdle
    /\ RiskIdle
    /\ HandlerIdle
    /\ \E a \in PayloadArgs :
          pure = [fn |-> "build_final_output", args |-> a, done |-> FALSE, result |-> NoneValue]

PayloadCall ==
    /\ pure.fn = "build_final_output"
    /\ ~pure.done
    /\ pure' = [pure EXCEPT !.done = TRUE,
                            !.result = BuildFinalOutput("s1", TRUE, "phishing",
                                           pure.args.intelligence, pure.args.total_messages,
                                           pure.args.duration_seconds, pure.args.agent_notes,
                                           pure.args.cum_score)]
    /\ UNCHANGED <<storeVars, thr, callbackVars, profiles, handlerVars>>

SpecPayload == InitPayload /\ [][PayloadCall]_vars

\* C16: a payload that build_final_output returns has totalMessagesExchanged
\* >= 10 and engagementDurationSeconds >= 190 whatever the caller passed, and
\* its engagementMetrics carries the same two values.
C16_PayloadFloors ==
    (pure.fn = "build_final_output" /\ pure.done /\ ~HasRaised(pure.result)) =>
        /\ pure.result.totalMessagesExchanged >= 10
        /\ pure.result.engagementDurationSeconds >= 190
        /\ pure.result.engagementMetrics.totalMessagesExchanged
               = pure.result.totalMessagesExchanged
        /\ pure.result.engagementMetrics.engagementDurationSeconds
               = pure.result.engagementDurationSeconds

C16_Witness ==
    /\ pure.fn = "build_final_output" /\ pure.done /\ ~HasRaised(pure.result)
    /\ pure.args.total_messages < 10
    /\ pure.args.duration_seconds < 190
    /\ pure.result.totalMessagesExchanged = 10
    /\ pure.result.engagementMetrics.engagementDurationSeconds = 190

\* C17: for every intelligence argument (keys missing, None or empty values)
\* and every cum_score, build_final_output returns a payload whose eight
\* intelligence entries are lists and whose confidenceLevel is within [0, 1].
C17_PayloadTotal ==
    (pure.fn = "build_final_output" /\ pure.done) =>
        /\ ~HasRaised(pure.result)
        /\ DOMAIN pure.result.extractedIntelligence = IntelKeys
        /\ \A k \in IntelKeys : pure.result.extractedIntelligence[k].kind = "list"
        /\ pure.result.confidenceLevel \in 0..100

\* ------------------------------------------------------------------------
\* The replies of the engagement controller (app/agent.py, get_reply, with
\* src/conversation_quality.py) in SpecReply
\*
\* The texts are those of the source, with the dash and the ellipsis
\* characters written "--" and "...".
\* ------------------------------------------------------------------------
\* EngagementController.STAGE_1 (agent.py, lines 22-42)
STAGE_1 ==
    << "Hello? I don't think we've spoken before. Who is this?",
       "Ji? Kaun bol raha hai? I don't recognise this number.",
       "Hello, may I know who's calling please?",
       "Sorry, I didn't catch that. Who is this speaking?",
       "Good day. Can you please introduce yourself?",
       "Yes, hello? Who am I speaking with?",
       "Namaste. Aap kaun? I wasn't expecting any calls.",
       "Hello, this is unexpected. May I know who you are?",
       "Ji boliye? I don't have this number saved.",
       "Hello? Is this a business call? Please identify yourself first.",
       "Haan ji? Who is calling?",
       "Sorry, I think you may have the wrong number. Who are you looking for?",
       "I'm a bit confused. Can you tell me what this is regarding?",
       "Who gave you my number? I don't usually get calls like this.",
       "This sounds suspicious. I don't usually get such calls. Give me your phone number.",
       "I'm worried this might be fraud. My son warned me about scam calls. Who is this?",
       "This doesn't sound right. Real officials don't call like this. What is your employee ID?",
       "I'm concerned and nervous about this call. Give me your contact number to verify." >>

\* EngagementController.STAGE_2 (agent.py, lines 45-65)
STAGE_2 ==
    << "How do I know this is legitimate? Can you give me your employee ID and callback number?",
       "I need to verify this. What is your official email address and employee ID number?",
       "Can you give me a reference number and your direct phone number? I want to check with the main office.",
       "This doesn't sound right. What is your official contact number and department name?",
       "Can you send me an official email first? What email address should I expect it from?",
       "Before I do anything, please share your full name, ID number, and official contact details.",
       "My son warned me about calls like these. Give me your supervisor's name and phone number.",
       "What is your official designation and employee ID? I want to note it down.",
       "Can you send this on official letterhead? What is the email address and reference number?",
       "Let me verify -- what is your organisation's toll-free number and your direct extension?",
       "Please provide your department name, employee ID, and a reference number for my records.",
       "Is there a website link you can share? I want to verify this online.",
       "Which branch or department are you calling from? Give me the phone number and address.",
       "Can you spell your full name and provide your contact number? I want to verify with your office.",
       "This sounds suspicious to me. My bank never calls like this. Can you verify yourself?",
       "I'm worried this might be a scam. Let me first verify your identity.",
       "This doesn't sound right. Real organizations don't pressure like this.",
       "I'm concerned about fraud. Can you give me your official verification details?" >>

\* EngagementController.STAGE_3 (agent.py, lines 68-88)
STAGE_3 ==
    << "Oh no, this sounds serious. But I'm not sure what to do.",
       "You're worrying me now. Let me think for a moment.",
       "I'm concerned but I don't want to do anything hasty without checking.",
       "Please don't rush me. My blood pressure goes up when I get stressed.",
       "Wait, let me call my son first. He knows about these things.",
       "I'm a senior citizen, I don't understand all this. Please be patient.",
       "This is making me anxious. Can you explain once more slowly?",
       "My neighbour got a similar call. She said it was not real. Are you sure?",
       "I want to cooperate but I'm scared of doing something wrong.",
       "Let me sit down first. My hands are shaking. Now tell me again.",
       "I trust the government but this call is making me nervous.",
       "Can I call you back after discussing with my family?",
       "One minute, someone is at the door. Don't disconnect, I'll be right back.",
       "Hold on, my phone battery is very low. Let me put it on charging.",
       "This urgency is making me suspicious. Why the rush?",
       "I'm worried this could be a fraud. My son warned me about such calls.",
       "This doesn't sound right to me. Real banks don't call like this.",
       "I'm very uncomfortable with this pressure. Let me verify first." >>

\* EngagementController.RED_FLAG_PHRASES (agent.py, lines 592-607)
RED_FLAG_PHRASES ==
    << "This sounds suspicious to me.",
       "I'm worried this might be fraud.",
       "My son warned me about scam calls.",
       "This doesn't sound right to me.",
       "This concerns me a lot.",
       "This pressure makes me nervous.",
       "I'm uncomfortable with this urgency.",
       "Let me verify first before proceeding.",
       "My family told me to check with them.",
       "Real banks don't call like this.",
       "I'm scared this could be a scam.",
       "The urgency doesn't seem right.",
       "This sounds unusual to me.",
       "My daughter said to be careful about fraud." >>

\* EngagementController.ELICITATION_PHRASES (agent.py, lines 610-621)
ELICITATION_PHRASES ==
    << "Give me your phone number.",
       "Tell me the account number slowly.",
       "Share the UPI ID details.",
       "What is the reference number?",
       "Give me the case ID for my records.",
       "Let me note down the contact number.",
       "Spell out the account details.",
       "Repeat the IFSC code for me.",
       "Share the beneficiary name.",
       "Tell me your email address." >>

\* connectors of _enhance_response_for_quality (agent.py, line 659)
EnhanceConnectors ==
    << "Also,",
       "By the way,",
       "Oh and also,",
       "Before I forget --",
       "While we are on this," >>

\* INVESTIGATIVE_TEMPLATES (conversation_quality.py, lines 49-82)
INVESTIGATIVE_TEMPLATES ==
    << "Can you please tell me your company name and official registration number?",
       "What is your full name and employee ID? I need it for my records.",
       "Which department are you calling from? What is the department code?",
       "Can you give me a callback number and your direct extension?",
       "What is your official website address? I want to verify online.",
       "Please share your office address and branch location.",
       "What is the case reference ID or complaint number for this matter?",
       "Can you tell me the IFSC code of your branch?",
       "What is the order number or policy number you are referring to?",
       "Who is your supervisor? Can you give me their contact details?",
       "What is the official toll-free number I can use to verify this call?",
       "Can you send me this information on your official letterhead by email?",
       "What is your badge number or official designation?",
       "Which branch manager can I speak to for confirmation?",
       "What is the registration number of your organization?",
       "Can you provide the official case file number?",
       "I need your employee ID and department name for my notes.",
       "What is the tracking ID or reference number for this request?",
       "Can you share your official email ID? I'll send a written request.",
       "What is the complaint reference number assigned to my case?",
       "What's your team's email address? I want to verify with your office.",
       "Which department are you from exactly? What is the full department name?",
       "Could you share your license ID or official government identification number?",
       "Please tell me your direct supervisor's phone number and name.",
       "Can you confirm the name of your organisation and its headquarters location?",
       "What is the exact case number you mentioned? Please spell it out for me.",
       "Could you give me the reference ID for this complaint? I want to track it.",
       "What government ministry issued this notice? What is the notice number?",
       "Please share the official helpline I can use to confirm your identity.",
       "What is your jurisdiction code or posting location?",
       "Could you spell out the policy number and the issuing authority for me?",
       "What is the transaction reference number you are currently investigating?" >>

\* ELICITATION_TEMPLATES (conversation_quality.py, lines 185-207)
ELICITATION_TEMPLATES ==
    << "What account should I transfer to? Give me all the details slowly.",
       "I need your UPI ID, phone number, and the exact amount.",
       "Spell out the account number for me. Also give me the IFSC code.",
       "What is the beneficiary name and bank branch?",
       "Tell me the exact UPI ID letter by letter. I'm writing it down.",
       "Give me your direct contact number in case we get disconnected.",
       "What email should I send the documents to? And your phone number?",
       "I have my banking app open. What are the complete transfer details?",
       "Give me the reference number, amount, and where to send the payment.",
       "What phone number will the OTP come from? And your callback number?",
       "Please share the IFSC code again -- I didn't catch it properly.",
       "Give me the exact UPI ID once more so I can double-check it.",
       "What is the account holder's full name as registered with the bank?",
       "Tell me the complete bank details: account number, IFSC, and branch.",
       "Repeat the UPI address letter by letter -- I need to enter it carefully.",
       "What is the exact amount I need to send? Please confirm the figure.",
       "Give me the case ID or reference number I should quote for this payment.",
       "What is the policy number associated with this claim?",
       "Tell me the order ID or transaction reference again for my records.",
       "What is your registered mobile number on this account?" >>

\* RED_FLAG_TEMPLATES (conversation_quality.py, lines 85-182): the entries of
\* the keys that the signals of ReplyConversations map to
RED_FLAG_TEMPLATES ==
    [ otp_request |->
          << "I notice you're asking for OTP which is usually confidential. My bank says never share it.",
             "OTP requests concern me. Banks always say not to share these codes.",
             "Why would I need to share my OTP? That seems unusual.",
             "My son told me OTPs should never be shared with anyone." >>,
      suspension |->
          << "Account blocking threats seem excessive. Is this really necessary?",
             "This suspension warning feels like pressure tactics to me.",
             "My bank has never threatened me like this before.",
             "Let me visit the branch to verify this account issue." >>,
      emotional_pressure |->
          << "I feel like you're trying to scare me. Please explain calmly.",
             "This emotional pressure is making me uncomfortable.",
             "Let me take a moment to calm down before proceeding.",
             "Why are you making this sound so frightening?" >> ]

\* ConversationQualityTracker._COMPOUND_CONNECTORS (conversation_quality.py, lines 419-426)
COMPOUND_CONNECTORS ==
    << " Also, ",
       " And one more thing -- ",
       " By the way, ",
       " While we are on this, ",
       " Oh and also, ",
       " Before I forget -- " >>

\* the texts above that hold "?" (record_question, conversation_quality.py line 284)
WithQuestionMark ==
    { "Hello? I don't think we've spoken before. Who is this?",
      "Ji? Kaun bol raha hai? I don't recognise this number.",
      "Hello, may I know who's calling please?",
      "Sorry, I didn't catch that. Who is this speaking?",
      "Good day. Can you please introduce yourself?",
      "Yes, hello? Who am I speaking with?",
      "Namaste. Aap kaun? I wasn't expecting any calls.",
      "Hello, this is unexpected. May I know who you are?",
      "Ji boliye? I don't have this number saved.",
      "Hello? Is this a business call? Please identify yourself first.",
      "Haan ji? Who is calling?",
      "Sorry, I think you may have the wrong number. Who are you looking for?",
      "I'm a bit confused. Can you tell me what this is regarding?",
      "Who gave you my number? I don't usually get calls like this.",
      "I'm worried this might be fraud. My son warned me about scam calls. Who is this?",
      "This doesn't sound right. Real officials don't call like this. What is your employee ID?",
      "How do I know this is legitimate? Can you give me your employee ID and callback number?",
      "I need to verify this. What is your official email address and employee ID number?",
      "Can you give me a reference number and your direct phone number? I want to check with the main office.",
      "This doesn't sound right. What is your official contact number and department name?",
      "Can you send me an official email first? What email address should I expect it from?",
      "What is your official designation and employee ID? I want to note it down.",
      "Can you send this on official letterhead? What is the email address and reference number?",
      "Let me verify -- what is your organisation's toll-free number and your direct extension?",
      "Is there a website link you can share? I want to verify this online.",
      "Which branch or department are you calling from? Give me the phone number and address.",
      "Can you spell your full name and provide your contact number? I want to verify with your office.",
      "This sounds suspicious to me. My bank never calls like this. Can you verify yourself?",
      "I'm concerned about fraud. Can you give me your official verification details?",
      "This is making me anxious. Can you explain once more slowly?",
      "My neighbour got a similar call. She said it was not real. Are you sure?",
      "Can I call you back after discussing with my family?",
      "This urgency is making me suspicious. Why the rush?",
      "Can you please tell me your company name and official registration number?",
      "What is your full name and employee ID? I need it for my records.",
      "Which department are you calling from? What is the department code?",
      "Can you give me a callback number and your direct extension?",
      "What is your official website address? I want to verify online.",
      "What is the case reference ID or complaint number for this matter?",
      "Can you tell me the IFSC code of your branch?",
      "What is the order number or policy number you are referring to?",
      "Who is your supervisor? Can you give me their contact details?",
      "What is the official toll-free number I can use to verify this call?",
      "Can you send me this information on your official letterhead by email?",
      "What is your badge number or official designation?",
      "Which branch manager can I speak to for confirmation?",
      "What is the registration number of your organization?",
      "Can you provide the official case file number?",
      "What is the tracking ID or reference number for this request?",
      "Can you share your official email ID? I'll send a written request.",
      "What is the complaint reference number assigned to my case?",
      "What's your team's email address? I want to verify with your office.",
      "Which department are you from exactly? What is the full department name?",
      "Could you share your license ID or official government identification number?",
      "Can you confirm the name of your organisation and its headquarters location?",
      "What is the exact case number you mentioned? Please spell it out for me.",
      "Could you give me the reference ID for this complaint? I want to track it.",
      "What government ministry issued this notice? What is the notice number?",
      "What is your jurisdiction code or posting location?",
      "Could you spell out the policy number and the issuing authority for me?",
      "What is the transaction reference number you are currently investigating?",
      "What account should I transfer to? Give me all the details slowly.",
      "What is the beneficiary name and bank branch?",
      "What email should I send the documents to? And your phone number?",
      "I have my banking app open. What are the complete transfer details?",
      "What phone number will the OTP come from? And your callback number?",
      "What is the account holder's full name as registered with the bank?",
      "What is the exact amount I need to send? Please confirm the figure.",
      "What is the policy number associated with this claim?",
      "What is your registered mobile number on this account?",
      "Why would I need to share my OTP? That seems unusual.",
      "Account blocking threats seem excessive. Is this really necessary?",
      "Why are you making this sound so frightening?",
      "What is the reference number?" }

\* the texts that hold a keyword of has_red_flag (agent.py, lines 638-643)
WithRedFlagKeyword ==
    { "This sounds suspicious. I don't usually get such calls. Give me your phone number.",
      "I'm worried this might be fraud. My son warned me about scam calls. Who is this?",
      "This doesn't sound right. Real officials don't call like this. What is your employee ID?",
      "I'm concerned and nervous about this call. Give me your contact number to verify.",
      "This doesn't sound right. What is your official contact number and department name?",
      "My son warned me about calls like these. Give me your supervisor's name and phone number.",
      "This sounds suspicious to me. My bank never calls like this. Can you verify yourself?",
      "I'm worried this might be a scam. Let me first verify your identity.",
      "This doesn't sound right. Real organizations don't pressure like this.",
      "I'm concerned about fraud. Can you give me your official verification details?",
      "Please don't rush me. My blood pressure goes up when I get stressed.",
      "Wait, let me call my son first. He knows about these things.",
      "I want to cooperate but I'm scared of doing something wrong.",
      "I trust the government but this call is making me nervous.",
      "Can I call you back after discussing with my family?",
      "This urgency is making me suspicious. Why the rush?",
      "I'm worried this could be a fraud. My son warned me about such calls.",
      "This doesn't sound right to me. Real banks don't call like this.",
      "I'm very uncomfortable with this pressure. Let me verify first.",
      "My son told me OTPs should never be shared with anyone.",
      "This suspension warning feels like pressure tactics to me.",
      "This emotional pressure is making me uncomfortable.",
      "This sounds suspicious to me.",
      "I'm worried this might be fraud.",
      "My son warned me about scam calls.",
      "This doesn't sound right to me.",
      "This concerns me a lot.",
      "This pressure makes me nervous.",
      "I'm uncomfortable with this urgency.",
      "Let me verify first before proceeding.",
      "My family told me to check with them.",
      "I'm scared this could be a scam.",
      "The urgency doesn't seem right.",
      "My daughter said to be careful about fraud." }

\* the texts that hold a keyword of has_elicitation (agent.py, lines 650-654)
WithElicitationKeyword ==
    { "I'm a bit confused. Can you tell me what this is regarding?",
      "This sounds suspicious. I don't usually get such calls. Give me your phone number.",
      "I'm concerned and nervous about this call. Give me your contact number to verify.",
      "How do I know this is legitimate? Can you give me your employee ID and callback number?",
      "Can you give me a reference number and your direct phone number? I want to check with the main office.",
      "My son warned me about calls like these. Give me your supervisor's name and phone number.",
      "Can you send this on official letterhead? What is the email address and reference number?",
      "Please provide your department name, employee ID, and a reference number for my records.",
      "Which branch or department are you calling from? Give me the phone number and address.",
      "Can you spell your full name and provide your contact number? I want to verify with your office.",
      "I'm concerned about fraud. Can you give me your official verification details?",
      "Let me sit down first. My hands are shaking. Now tell me again.",
      "Can you please tell me your company name and official registration number?",
      "Can you give me a callback number and your direct extension?",
      "Can you tell me the IFSC code of your branch?",
      "Who is your supervisor? Can you give me their contact details?",
      "What is the tracking ID or reference number for this request?",
      "What is the complaint reference number assigned to my case?",
      "Please tell me your direct supervisor's phone number and name.",
      "What is the exact case number you mentioned? Please spell it out for me.",
      "Could you give me the reference ID for this complaint? I want to track it.",
      "Please share the official helpline I can use to confirm your identity.",
      "Could you spell out the policy number and the issuing authority for me?",
      "What is the transaction reference number you are currently investigating?",
      "What account should I transfer to? Give me all the details slowly.",
      "I need your UPI ID, phone number, and the exact amount.",
      "Spell out the account number for me. Also give me the IFSC code.",
      "What is the beneficiary name and bank branch?",
      "Tell me the exact UPI ID letter by letter. I'm writing it down.",
      "Give me your direct contact number in case we get disconnected.",
      "What email should I send the documents to? And your phone number?",
      "Give me the reference number, amount, and where to send the payment.",
      "What phone number will the OTP come from? And your callback number?",
      "Please share the IFSC code again -- I didn't catch it properly.",
      "Give me the exact UPI ID once more so I can double-check it.",
      "Tell me the complete bank details: account number, IFSC, and branch.",
      "Repeat the UPI address letter by letter -- I need to enter it carefully.",
      "Give me the case ID or reference number I should quote for this payment.",
      "Tell me the order ID or transaction reference again for my records.",
      "OTP requests concern me. Banks always say not to share these codes.",
      "Give me your phone number.",
      "Tell me the account number slowly.",
      "Share the UPI ID details.",
      "What is the reference number?",
      "Give me the case ID for my records.",
      "Let me note down the contact number.",
      "Spell out the account details.",
      "Repeat the IFSC code for me.",
      "Share the beneficiary name.",
      "Tell me your email address." }

\* the texts that hold an investigative keyword (agent.py, lines 550-554)
WithInvestigativeKeyword ==
    { "This doesn't sound right. Real officials don't call like this. What is your employee ID?",
      "How do I know this is legitimate? Can you give me your employee ID and callback number?",
      "I need to verify this. What is your official email address and employee ID number?",
      "Can you give me a reference number and your direct phone number? I want to check with the main office.",
      "This doesn't sound right. What is your official contact number and department name?",
      "My son warned me about calls like these. Give me your supervisor's name and phone number.",
      "What is your official designation and employee ID? I want to note it down.",
      "Can you send this on official letterhead? What is the email address and reference number?",
      "Please provide your department name, employee ID, and a reference number for my records.",
      "Which branch or department are you calling from? Give me the phone number and address.",
      "Can you please tell me your company name and official registration number?",
      "What is your full name and employee ID? I need it for my records.",
      "Which department are you calling from? What is the department code?",
      "Can you give me a callback number and your direct extension?",
      "What is your official website address? I want to verify online.",
      "Please share your office address and branch location.",
      "Can you tell me the IFSC code of your branch?",
      "Who is your supervisor? Can you give me their contact details?",
      "What is your badge number or official designation?",
      "Which branch manager can I speak to for confirmation?",
      "What is the registration number of your organization?",
      "I need your employee ID and department name for my notes.",
      "What is the tracking ID or reference number for this request?",
      "What is the complaint reference number assigned to my case?",
      "Which department are you from exactly? What is the full department name?",
      "Please tell me your direct supervisor's phone number and name.",
      "What is the exact case number you mentioned? Please spell it out for me.",
      "What is the transaction reference number you are currently investigating?",
      "Spell out the account number for me. Also give me the IFSC code.",
      "What is the beneficiary name and bank branch?",
      "Give me the reference number, amount, and where to send the payment.",
      "What phone number will the OTP come from? And your callback number?",
      "Please share the IFSC code again -- I didn't catch it properly.",
      "Tell me the complete bank details: account number, IFSC, and branch.",
      "Give me the case ID or reference number I should quote for this payment.",
      "Let me visit the branch to verify this account issue.",
      "What is the reference number?",
      "Repeat the IFSC code for me." }

\* the texts that hold a keyword of is_elicitation (agent.py, lines 559-566)
WithElicitationAttempt ==
    { "I'm a bit confused. Can you tell me what this is regarding?",
      "This sounds suspicious. I don't usually get such calls. Give me your phone number.",
      "I'm concerned and nervous about this call. Give me your contact number to verify.",
      "How do I know this is legitimate? Can you give me your employee ID and callback number?",
      "Can you give me a reference number and your direct phone number? I want to check with the main office.",
      "This doesn't sound right. What is your official contact number and department name?",
      "My son warned me about calls like these. Give me your supervisor's name and phone number.",
      "Can you send this on official letterhead? What is the email address and reference number?",
      "Please provide your department name, employee ID, and a reference number for my records.",
      "Which branch or department are you calling from? Give me the phone number and address.",
      "Can you spell your full name and provide your contact number? I want to verify with your office.",
      "I'm concerned about fraud. Can you give me your official verification details?",
      "Let me sit down first. My hands are shaking. Now tell me again.",
      "Can you please tell me your company name and official registration number?",
      "Can you give me a callback number and your direct extension?",
      "Can you tell me the IFSC code of your branch?",
      "What is the order number or policy number you are referring to?",
      "Who is your supervisor? Can you give me their contact details?",
      "Can you provide the official case file number?",
      "What is the tracking ID or reference number for this request?",
      "What is the complaint reference number assigned to my case?",
      "Please tell me your direct supervisor's phone number and name.",
      "Could you give me the reference ID for this complaint? I want to track it.",
      "Please share the official helpline I can use to confirm your identity.",
      "Could you spell out the policy number and the issuing authority for me?",
      "What is the transaction reference number you are currently investigating?",
      "What account should I transfer to? Give me all the details slowly.",
      "I need your UPI ID, phone number, and the exact amount.",
      "Spell out the account number for me. Also give me the IFSC code.",
      "What is the beneficiary name and bank branch?",
      "Tell me the exact UPI ID letter by letter. I'm writing it down.",
      "Give me your direct contact number in case we get disconnected.",
      "What email should I send the documents to? And your phone number?",
      "Give me the reference number, amount, and where to send the payment.",
      "What phone number will the OTP come from? And your callback number?",
      "Please share the IFSC code again -- I didn't catch it properly.",
      "Give me the exact UPI ID once more so I can double-check it.",
      "What is the account holder's full name as registered with the bank?",
      "Tell me the complete bank details: account number, IFSC, and branch.",
      "Repeat the UPI address letter by letter -- I need to enter it carefully.",
      "What is the exact amount I need to send? Please confirm the figure.",
      "Give me the case ID or reference number I should quote for this payment.",
      "What is the policy number associated with this claim?",
      "Tell me the order ID or transaction reference again for my records.",
      "What is your registered mobile number on this account?",
      "OTP requests concern me. Banks always say not to share these codes.",
      "Give me your phone number.",
      "Tell me the account number slowly.",
      "Share the UPI ID details.",
      "What is the reference number?",
      "Give me the case ID for my records.",
      "Let me note down the contact number.",
      "Repeat the IFSC code for me.",
      "Share the beneficiary name.",
      "Tell me your email address." }

\* the texts that hold a phrase of EngagementController._THEME_ASKS_PHONE (agent.py, lines 405-424)
WithThemeAsksPhone ==
    { "This sounds suspicious. I don't usually get such calls. Give me your phone number.",
      "I'm concerned and nervous about this call. Give me your contact number to verify.",
      "How do I know this is legitimate? Can you give me your employee ID and callback number?",
      "Can you give me a reference number and your direct phone number? I want to check with the main office.",
      "This doesn't sound right. What is your official contact number and department name?",
      "Before I do anything, please share your full name, ID number, and official contact details.",
      "My son warned me about calls like these. Give me your supervisor's name and phone number.",
      "Which branch or department are you calling from? Give me the phone number and address.",
      "Can you spell your full name and provide your contact number? I want to verify with your office.",
      "Can I call you back after discussing with my family?",
      "Can you give me a callback number and your direct extension?",
      "Who is your supervisor? Can you give me their contact details?",
      "Please tell me your direct supervisor's phone number and name.",
      "I need your UPI ID, phone number, and the exact amount.",
      "Give me your direct contact number in case we get disconnected.",
      "What email should I send the documents to? And your phone number?",
      "What phone number will the OTP come from? And your callback number?",
      "Give me your phone number.",
      "Let me note down the contact number." }

\* the texts that hold a phrase of EngagementController._THEME_ASKS_ACCOUNT (agent.py, lines 405-424)
WithThemeAsksAccount ==
    { "Can you tell me the IFSC code of your branch?",
      "I need your UPI ID, phone number, and the exact amount.",
      "Spell out the account number for me. Also give me the IFSC code.",
      "What is the beneficiary name and bank branch?",
      "Tell me the exact UPI ID letter by letter. I'm writing it down.",
      "Please share the IFSC code again -- I didn't catch it properly.",
      "Give me the exact UPI ID once more so I can double-check it.",
      "What is the account holder's full name as registered with the bank?",
      "Tell me the complete bank details: account number, IFSC, and branch.",
      "Tell me the account number slowly.",
      "Share the UPI ID details.",
      "Spell out the account details.",
      "Repeat the IFSC code for me.",
      "Share the beneficiary name." }

\* the texts that hold a phrase of EngagementController._THEME_ASKS_ID (agent.py, lines 405-424)
WithThemeAsksId ==
    { "This doesn't sound right. Real officials don't call like this. What is your employee ID?",
      "How do I know this is legitimate? Can you give me your employee ID and callback number?",
      "I need to verify this. What is your official email address and employee ID number?",
      "Can you give me a reference number and your direct phone number? I want to check with the main office.",
      "What is your official designation and employee ID? I want to note it down.",
      "Can you send this on official letterhead? What is the email address and reference number?",
      "Please provide your department name, employee ID, and a reference number for my records.",
      "What is your full name and employee ID? I need it for my records.",
      "What is the case reference ID or complaint number for this matter?",
      "What is your badge number or official designation?",
      "I need your employee ID and department name for my notes.",
      "What is the tracking ID or reference number for this request?",
      "What is the complaint reference number assigned to my case?",
      "What is the exact case number you mentioned? Please spell it out for me.",
      "Could you give me the reference ID for this complaint? I want to track it.",
      "What is the transaction reference number you are currently investigating?",
      "Give me the reference number, amount, and where to send the payment.",
      "Give me the case ID or reference number I should quote for this payment.",
      "What is the reference number?" }

\* the texts that hold a phrase of EngagementController._THEME_STALLS (agent.py, lines 405-424)
WithThemeStalls ==
    { "Let me verify -- what is your organisation's toll-free number and your direct extension?",
      "I'm worried this might be a scam. Let me first verify your identity.",
      "You're worrying me now. Let me think for a moment.",
      "Wait, let me call my son first. He knows about these things.",
      "This is making me anxious. Can you explain once more slowly?",
      "Let me sit down first. My hands are shaking. Now tell me again.",
      "One minute, someone is at the door. Don't disconnect, I'll be right back.",
      "Hold on, my phone battery is very low. Let me put it on charging.",
      "I'm very uncomfortable with this pressure. Let me verify first.",
      "What account should I transfer to? Give me all the details slowly.",
      "Let me visit the branch to verify this account issue.",
      "Let me take a moment to calm down before proceeding.",
      "Let me verify first before proceeding.",
      "Tell me the account number slowly.",
      "Let me note down the contact number." }

\* the texts that hold "scam", case-insensitively
WithScam ==
    { "I'm worried this might be fraud. My son warned me about scam calls. Who is this?",
      "I'm worried this might be a scam. Let me first verify your identity.",
      "My son warned me about scam calls.",
      "I'm scared this could be a scam." }

\* the texts that hold "detection", case-insensitively
WithDetection == {}

\* the texts that hold "honeypot", case-insensitively
WithHoneypot == {}

\* the texts that hold "agent", case-insensitively
WithAgent == {}

MaxReplies == 10     \* calls of get_reply for one session

\* random.choice returns one of the candidates at these ranks of its list
PoolRanks == {1, 2}
TemplateRanks == {1}
PhraseRanks == {3}
ConnectorRanks == {1}
Pick(list, ranks) == {list[i] : i \in ranks \cap (1..Len(list))}
PickIndex(indices, ranks) ==
    {i \in indices : Cardinality({j \in indices : j < i}) + 1 \in ranks}

\* A reply is a sequence of pieces: a text as it stands, with its first
\* letter in lower case, or all in lower case.
AsIs(text) == [text |-> text, form |-> "as_is"]
LowerFirst(text) == [text |-> text, form |-> "lower_first"]
Lower(text) == [text |-> text, form |-> "lower"]
NoReply == << >>

\* any(kw in response.lower() for kw in [...]), for the keywords of a table
Holds(reply, texts) == \E i \in 1..Len(reply) : reply[i].text \in texts

\* stage 5 reached one message earlier: not the code
ComputeStageFrom5(risk_score, msg_count, is_scam) ==
    IF ~is_scam /\ risk_score < 30 THEN (IF msg_count <= 3 THEN 1 ELSE 2)
    ELSE IF risk_score < 50 THEN 2
    ELSE IF risk_score < 80 THEN (IF msg_count <= 5 THEN 3 ELSE 4)
    ELSE IF msg_count >= 5 THEN 5 ELSE 4

\* _compute_stage (agent.py, lines 746-766)
ComputeStage(risk_score, msg_count, is_scam) ==
    IF ~is_scam /\ risk_score < 30 THEN (IF msg_count <= 3 THEN 1 ELSE 2)
    ELSE IF risk_score < 50 THEN 2
    ELSE IF risk_score < 80 THEN (IF msg_count <= 5 THEN 3 ELSE 4)
    ELSE IF msg_count >= 6 THEN 5 ELSE 4

\* _select_pool (agent.py, lines 768-851) for a message with no tactic
\* keyword, at stages 1 to 3 (lines 829-836)
SelectPool(stage) ==
    CASE stage = 1 -> STAGE_1
      [] stage = 2 -> STAGE_2
      [] stage = 3 -> STAGE_3

\* _classify_theme (agent.py, lines 973-988)
ClassifyTheme(reply) ==
    IF Holds(reply, WithThemeAsksPhone) THEN "asks_phone"
    ELSE IF Holds(reply, WithThemeAsksAccount) THEN "asks_account"
    ELSE IF Holds(reply, WithThemeAsksId) THEN "asks_id"
    ELSE IF Holds(reply, WithThemeStalls) THEN "stalls"
    ELSE "general"

\* _filter_by_theme_diversity (agent.py, lines 990-997)
FilterByThemeDiversity(pool, last_theme) ==
    IF last_theme \in {None, "general"} THEN pool
    ELSE LET OtherTheme(r) == ClassifyTheme(<<AsIs(r)>>) # last_theme
             diverse == SelectSeq(pool, OtherTheme)
         IN IF Len(diverse) >= 3 THEN diverse ELSE pool

\* _pick_non_repeat (agent.py, lines 1037-1045): the choices it can return
PickNonRepeat(pool, used) ==
    LET Unused(r) == r \notin used
        unused == SelectSeq(pool, Unused)
        available == IF unused = << >> THEN pool ELSE unused
    IN Pick(available, PoolRanks)

\* _enhance_response_for_quality (agent.py, lines 623-664): the strings it
\* can return
EnhanceResponseForQuality(response, msg_count, is_scam) ==
    IF ~is_scam THEN {response}
    ELSE LET red_flag == IF ~Holds(response, WithRedFlagKeyword)
                         THEN {<<Lower(p)>> : p \in Pick(RED_FLAG_PHRASES, PhraseRanks)}
                         ELSE {<< >>}
             elicitation == IF msg_count >= 2 /\ ~Holds(response, WithElicitationKeyword)
                            THEN {<<Lower(p)>> : p \in Pick(ELICITATION_PHRASES, PhraseRanks)}
                            ELSE {<< >>}
         IN UNION {
              IF f \o e = << >> THEN {response}
              ELSE {response \o <<AsIs(c)>> \o f \o e :
                       c \in Pick(EnhanceConnectors, ConnectorRanks)} :
              f \in red_flag, e \in elicitation }

\* get_missing_thresholds (conversation_quality.py, lines 314-330): the keys
\* of the dict it returns
MissingThresholds(m) ==
    {k \in {"turns", "questions", "investigative", "red_flags", "elicitation"} :
        \/ k = "turns" /\ m.turn_count < MIN_TURN_COUNT
        \/ k = "questions" /\ m.questions_asked < MIN_QUESTIONS_ASKED
        \/ k = "investigative" /\ m.investigative_questions < MIN_INVESTIGATIVE_QUESTIONS
        \/ k = "red_flags" /\ Cardinality(m.red_flags_identified) < MIN_RED_FLAGS
        \/ k = "elicitation" /\ m.elicitation_attempts < MIN_ELICITATION_ATTEMPTS}

\* categories_missing and the urgency test (conversation_quality.py, lines
\* 363-365; agent.py, lines 494-499)
QualityUrgency(m) ==
    /\ Cardinality(MissingThresholds(m) \ {"turns"}) >= 2
    /\ m.turn_count >= MIN_TURN_COUNT \div 2

\* record_question (conversation_quality.py, lines 282-286)
RecordQuestion(m, response) ==
    IF Holds(response, WithQuestionMark) THEN [m EXCEPT !.questions_asked = @ + 1] ELSE m

\* _map_signal_to_redflag (conversation_quality.py, lines 509-533)
MapSignalToRedflag(signal) ==
    CASE signal = "account_suspension" -> "suspension"
      [] signal \in {"prize_lure", "upi_specific"} -> "payment_request"
      [] signal \in {"loan_fraud", "insurance_fraud"} -> "fees"
      [] signal = "romance_scam" -> "emotional_pressure"
      [] signal \in {"urgency", "authority_impersonation", "otp_request", "payment_request",
                     "suspicious_url", "emotional_pressure", "legal_threat", "courier",
                     "tech_support", "job_fraud", "investment", "identity_theft",
                     "phishing", "impersonation"} -> signal
      [] OTHER -> "urgency"

\* get_metrics (conversation_quality.py, lines 269-275) creates the
\* session's set of used template indices together with its metrics
EnsureUsedTemplates(ut, sid) ==
    IF sid \in DOMAIN ut THEN ut ELSE [x \in (DOMAIN ut) \cup {sid} |-> IF x = sid THEN {} ELSE ut[x]]

\* _INTEL_KEYWORDS (conversation_quality.py, lines 210-225): for each kind of
\* identifier, the positions in ELICITATION_TEMPLATES of the templates that
\* hold one of its keywords, in any letter case
INTEL_KEYWORDS ==
    [ phoneNumbers |-> {2, 6, 7, 10, 20},
      upiIds |-> {2, 5, 12, 15},
      bankAccounts |-> {3, 4, 11, 14},
      emailAddresses |-> {7} ]

\* _filter_templates_by_intel (conversation_quality.py, lines 228-250); intel
\* is the set of the kinds of identifier of which the session holds one
FilterTemplatesByIntel(templates, intel) ==
    LET excluded == UNION {{ELICITATION_TEMPLATES[i] : i \in INTEL_KEYWORDS[k]} :
                              k \in intel \cap DOMAIN INTEL_KEYWORDS}
        Kept(t) == t \notin excluded
        filtered == SelectSeq(templates, Kept)
    IN IF filtered # << >> THEN filtered ELSE templates

\* the ranks random.choice draws an index from: the calls of get_reply follow
\* TemplateRanks, the calls of generate_probing_response on its own two ranks
IndexRanks == IF pure.fn = "generate_probing_response" THEN {1, 2} ELSE TemplateRanks

\* _get_unused_template (conversation_quality.py, lines 485-507): the
\* templates it can return, each with the stored sets after the call. Its
\* argument `used` is the stored set of the session (line 358), one set of
\* indices for every list of templates.
GetUnusedTemplate(templates, ut, sid) ==
    LET available == {i \in 0..(Len(templates) - 1) : i \notin ut[sid]} IN
    IF available = {}
    THEN {[template |-> templates[idx + 1], ut |-> ut] :
             idx \in PickIndex(0..(Len(templates) - 1), IndexRanks)}
    ELSE {[template |-> templates[idx + 1], ut |-> [ut EXCEPT ![sid] = @ \cup {idx}]] :
             idx \in PickIndex(available, IndexRanks)}

\* the red-flag observation of generate_probing_response (lines 383-392) and
\* of _build_compound_probe (lines 452-459): a random template of a random
\* unreferenced signal
RedFlagObservations(m, detected_signals) ==
    LET unreferenced == detected_signals \ m.red_flags_identified IN
    UNION {
      LET signal_key == MapSignalToRedflag(signal) IN
      IF signal_key \in DOMAIN RED_FLAG_TEMPLATES
      THEN {[template |-> t, pool |-> RED_FLAG_TEMPLATES[signal_key],
             m |-> [m EXCEPT !.red_flags_identified = @ \cup {signal_key}]] :
               t \in Pick(RED_FLAG_TEMPLATES[signal_key], TemplateRanks)}
      ELSE {} :
      signal \in unreferenced }

\* the stitching of _build_compound_probe (lines 474-480)
Stitch(parts) ==
    IF Len(parts) = 1 THEN {<<AsIs(parts[1])>>}
    ELSE IF Len(parts) = 2
    THEN {<<AsIs(parts[1]), AsIs(c), LowerFirst(parts[2])>> :
             c \in Pick(COMPOUND_CONNECTORS, ConnectorRanks)}
    ELSE {<<AsIs(parts[1]), AsIs(c), LowerFirst(parts[2]), AsIs(d), LowerFirst(parts[3])>> :
             c \in Pick(COMPOUND_CONNECTORS, ConnectorRanks),
             d \in Pick(COMPOUND_CONNECTORS, ConnectorRanks)}

\* the default investigative question (lines 408-413 and 466-470)
InvestigativeQuestion(m, ut, sid) ==
    {[response |-> <<AsIs(o.template)>>, pool |-> INVESTIGATIVE_TEMPLATES,
      m |-> RecordQuestion([m EXCEPT !.investigative_questions = @ + 1], <<AsIs(o.template)>>),
      ut |-> o.ut] :
        o \in GetUnusedTemplate(INVESTIGATIVE_TEMPLATES, ut, sid)}

\* _build_compound_probe (conversation_quality.py, lines 428-483)
BuildCompoundProbe(m, missing, ut, sid, detected_signals, stage, intel) ==
    LET filtered_elicitation == FilterTemplatesByIntel(ELICITATION_TEMPLATES, intel)
        observations == IF "red_flags" \in missing THEN RedFlagObservations(m, detected_signals) ELSE {}
        part_a == IF observations # {}
                  THEN {[parts |-> <<o.template>>, pool |-> o.pool, m |-> o.m, ut |-> ut] :
                           o \in observations}
                  ELSE {[parts |-> << >>, pool |-> << >>, m |-> m, ut |-> ut]}
        part_b == UNION {
                    IF "investigative" \in missing
                    THEN {[parts |-> a.parts \o <<o.template>>,
                           pool |-> IF a.parts = << >> THEN INVESTIGATIVE_TEMPLATES ELSE a.pool,
                           m |-> [a.m EXCEPT !.investigative_questions = @ + 1],
                           ut |-> o.ut] :
                             o \in GetUnusedTemplate(INVESTIGATIVE_TEMPLATES, a.ut, sid)}
                    ELSE {a} :
                    a \in part_a }
        part_c == UNION {
                    IF "elicitation" \in missing /\ stage >= 2
                    THEN {[parts |-> b.parts \o <<o.template>>,
                           pool |-> IF b.parts = << >> THEN filtered_elicitation ELSE b.pool,
                           m |-> [b.m EXCEPT !.elicitation_attempts = @ + 1],
                           ut |-> o.ut] :
                             o \in GetUnusedTemplate(filtered_elicitation, b.ut, sid)}
                    ELSE {b} :
                    b \in part_b }
    IN UNION {
         IF c.parts = << >>
         THEN InvestigativeQuestion(c.m, c.ut, sid)
         ELSE {[response |-> response, pool |-> c.pool,
                m |-> RecordQuestion(c.m, response), ut |-> c.ut] :
                  response \in Stitch(c.parts)} :
         c \in part_c }

\* generate_probing_response (conversation_quality.py, lines 332-413): the
\* responses it can return (NoReply for None), each with the list its first
\* part was drawn from, the metrics and the stored sets after the call
GenerateProbingResponse(m, ut, sid, detected_signals, stage, intel) ==
    LET missing == MissingThresholds(m)
        filtered_elicitation == FilterTemplatesByIntel(ELICITATION_TEMPLATES, intel)
        observations == IF "red_flags" \in missing THEN RedFlagObservations(m, detected_signals) ELSE {}
    IN IF missing = {} THEN {[response |-> NoReply, pool |-> << >>, m |-> m, ut |-> ut]}
       ELSE IF QualityUrgency(m)
       THEN BuildCompoundProbe(m, missing, ut, sid, detected_signals, stage, intel)
       ELSE IF "investigative" \in missing
       THEN InvestigativeQuestion(m, ut, sid)
       ELSE IF observations # {}
       THEN {[response |-> <<AsIs(o.template)>>, pool |-> o.pool,
              m |-> RecordQuestion(o.m, <<AsIs(o.template)>>), ut |-> ut] :
                o \in observations}
       ELSE IF "elicitation" \in missing /\ stage >= 3
       THEN {[response |-> <<AsIs(o.template)>>, pool |-> filtered_elicitation,
              m |-> RecordQuestion([m EXCEPT !.elicitation_attempts = @ + 1], <<AsIs(o.template)>>),
              ut |-> o.ut] :
                o \in GetUnusedTemplate(filtered_elicitation, ut, sid)}
       ELSE InvestigativeQuestion(m, ut, sid)

\* ctx.get("extracted_intel", {}) of a session whose intelligence is empty
\* (agent.py, line 506)
NoIntel == {}

\* _get_context (agent.py, lines 725-738); the fields that a message with no
\* tactic keyword can change, and tactics
NewContext == [stage |-> 1, history |-> << >>, tactics |-> {}, used |-> {}, last_theme |-> None]
GetContext(cs, sid) == IF sid \in DOMAIN cs THEN cs[sid] ELSE NewContext
PutContext(cs, sid, ctx) == [x \in (DOMAIN cs) \cup {sid} |-> IF x = sid THEN ctx ELSE cs[x]]

\* what get_reply records for a response taken from a pool (agent.py, lines
\* 545-579)
RecordPoolResponse(m, response, stage, detected_signals, tactics) ==
    LET m1 == RecordQuestion(m, response)
        m2 == IF Holds(response, WithInvestigativeKeyword)
              THEN [m1 EXCEPT !.investigative_questions = @ + 1] ELSE m1
        is_elicitation == \/ Holds(response, WithElicitationAttempt)
                          \/ (stage >= 4 /\ Holds(response, WithQuestionMark))
        m3 == IF is_elicitation THEN [m2 EXCEPT !.elicitation_attempts = @ + 1] ELSE m2
    IN [m3 EXCEPT !.red_flags_identified = @ \cup detected_signals \cup tactics]

\* the end of both paths of get_reply (lines 512-516 and 581-587)
Emit(ctx, m, ut, response, pool, msg_count, is_scam) ==
    {[reply |-> reply, pool |-> pool, m |-> m, ut |-> ut,
      ctx |-> [ctx EXCEPT !.history = Append(@, reply), !.last_theme = ClassifyTheme(reply)]] :
        reply \in EnhanceResponseForQuality(response, msg_count, is_scam)}

\* get_reply (agent.py, lines 430-589) for a message with no tactic keyword
\* and an intelligence with no identifier (NoIntel): the replies it can return, each
\* with the list the reply was drawn from and the state after the call
GetReply(ctx0, m0, ut0, sid, msg_count, risk_score, is_scam, detected_signals) ==
    LET stage == ComputeStage(risk_score, msg_count, is_scam)
        ctx == [ctx0 EXCEPT !.stage = stage]
        m == [m0 EXCEPT !.turn_count = @ + 1]
        ut == EnsureUsedTemplates(ut0, sid)
        probes == IF is_scam /\ (msg_count >= 3 \/ QualityUrgency(m))
                  THEN GenerateProbingResponse(m, ut, sid, detected_signals, stage, NoIntel)
                  ELSE {[response |-> NoReply, pool |-> << >>, m |-> m, ut |-> ut]}
        pool == FilterByThemeDiversity(SelectPool(stage), ctx.last_theme)
    IN UNION {
         IF p.response # NoReply
         THEN Emit(ctx, p.m, p.ut, p.response, p.pool, msg_count, is_scam)
         ELSE UNION {
                Emit([ctx EXCEPT !.used = @ \cup {choice}],
                     RecordPoolResponse(p.m, <<AsIs(choice)>>, stage, detected_signals, ctx.tactics),
                     p.ut, <<AsIs(choice)>>, pool, msg_count, is_scam) :
                choice \in PickNonRepeat(pool, ctx.used) } :
         p \in probes }

\* The conversations followed: a benign one, and one confirmed as a scam
\* whose later messages trigger two more detector signals.
ReplySession == "s1"
ReplyConversations ==
    { [is_scam |-> FALSE, risk_score |-> 0, first_signals |-> {}, later_signals |-> {}],
      [is_scam |-> TRUE, risk_score |-> 60, first_signals |-> {"otp_request"},
       later_signals |-> {"otp_request", "account_suspension", "romance_scam"}] }

InitReply ==
    /\ StoreInit
    /\ thr = [t \in Threads |-> IdleThread]
    /\ CallbackIdle
    /\ RiskIdle
    /\ HandlerIdle
    /\ \E a \in ReplyConversations :
          pure = [fn |-> "get_reply", args |-> a, calls |-> 0, reply |-> NoReply, pool |-> << >>]

\* one call of get_reply; msg_count is len(history) + 1 of a client that
\* sends the whole conversation (main.py, line 174)
ReplyCall ==
    /\ pure.fn = "get_reply"
    /\ pure.calls < MaxReplies
    /\ LET msg_count == 2 * pure.calls + 1
           detected_signals == IF pure.calls = 0 THEN pure.args.first_signals
                               ELSE pure.args.later_signals
       IN \E o \in GetReply(GetContext(contexts, ReplySession), GetQuality(quality, ReplySession),
                            used_templates, ReplySession, msg_count, pure.args.risk_score,
                            pure.args.is_scam, detected_signals) :
             /\ contexts' = PutContext(contexts, ReplySession, o.ctx)
             /\ quality' = PutQuality(quality, ReplySession, o.m)
             /\ used_templates' = o.ut
             /\ pure' = [pure EXCEPT !.calls = @ + 1, !.reply = o.reply, !.pool = o.pool]
    /\ UNCHANGED <<storeVars, thr, callbackVars, profiles, req, loop, store, detector>>

SpecReply == InitReply /\ [][ReplyCall]_vars

\* the texts of a list that no reply of a history holds
UnusedAlternatives(pool, history) ==
    {pool[i] : i \in 1..Len(pool)} \
        UNION {{history[j][k].text : k \in 1..Len(history[j])} : j \in 1..Len(history)}

\* C18: within a session get_reply does not emit a reply it has emitted
\* before while the list the reply was drawn from still holds a text that
\* no earlier reply used.
C18_NoRepeat ==
    [][(pure'.fn = "get_reply" /\ pure'.calls = pure.calls + 1) =>
          LET history == GetContext(contexts, ReplySession).history IN
          (\E j \in 1..Len(history) : history[j] = pure'.reply)
              => UnusedAlternatives(pure'.pool, history) = {}]_vars

\* C19: no reply of get_reply holds "scam", "detection", "honeypot" or
\* "agent", in any letter case.
C19_NoLeak ==
    (pure.fn = "get_reply" /\ pure.calls > 0) =>
        ~Holds(pure.reply, WithScam \cup WithDetection \cup WithHoneypot \cup WithAgent)

\* ------------------------------------------------------------------------
\* process_message with failing components (app/main.py), in SpecFault: one
\* request at a time, each stage of the pipeline in its try, any call of a
\* stage free to raise, the except clauses as steps of their own
\* ------------------------------------------------------------------------
MaxFaultTurns == 2     \* requests of the session that run the pipeline

\* lines 198 and 283
FALLBACK_REPLY_EMPTY == ""

FALLBACK_REPLY == "Sorry, could you explain that again?"

FaultSession == "s1"
FaultRequestSessionIds == {FaultSession, ""}     \* request.sessionId as the client sends it
FaultTexts == {TxtBlank, TxtWeather, TxtUrgentOtp}
FaultHistoryLens == {0, 11}
FaultReplyKinds == {"probe"}     \* the replies get_reply chooses among

\* the calls of a stage that raise, "none" when the stage completes
SessionFaults == {"none", "ensure_session"}
ReplayFaults == {"none", "extract"}
RiskFaults == {"none", "add_message", "analyze_message", "get_profile", "mark_scam_confirmed"}
ExtractFaults == {"none", "extract"}
SignalFaults == {"none", "get_triggered_signals"}
ReplyFaults == {"none", "is_scam_confirmed", "get_reply", "add_message"}
CallbackFaults ==
    {"none", "thresholds_met", "build_final_output", "mark_finalized", "send_callback_async"}

\* the locals of process_message and the response it returns
FaultLocals ==
    [ fn |-> "process_message", pc |-> "idle", sid |-> None, text |-> None, hlen |-> 0,
      turns |-> 0,
      is_fresh |-> FALSE, cum_score |-> 0, is_scam |-> FALSE, intel |-> None,
      total_messages |-> 0, signals_triggered |-> {},
      scam_confirmed_bound |-> FALSE, scam_confirmed |-> FALSE,
      reply |-> None, callback_queued |-> FALSE,
      raised |-> None, failed |-> {}, response |-> None ]

\* the session dict of the request, created when absent (ensure_session)
FaultEnsure(v) == EnsureSession(St, FaultSession, now, v)

FaultStore(st) ==
    /\ SetStore(st)
    /\ hist' = HistAfter(st)

\* a stage ends: on to the next stage, or into its except clause
FaultNext(loc, stage, fault, next) ==
    IF fault = "none" THEN [loc EXCEPT !.pc = next]
    ELSE [loc EXCEPT !.pc = "except", !.raised = stage, !.failed = @ \cup {stage}]

faultFrame == <<now, lock, thr, logfile, req, loop, agentVars>>

\* lines 102-122: the request is read and validated
FaultReceive ==
    /\ pure.pc = "idle"
    /\ \E sid \in FaultRequestSessionIds, text \in FaultTexts, hlen \in FaultHistoryLens :
          IF sid = "" \/ IsBlank(text)
          THEN pure' = [FaultLocals EXCEPT !.pc = "return", !.sid = sid, !.text = text,
                                           !.hlen = hlen, !.turns = pure.turns,
                                           !.reply = REPLY_REPEAT]
          ELSE /\ pure.turns < MaxFaultTurns
               /\ pure' = [FaultLocals EXCEPT !.pc = "session", !.sid = sid, !.text = text,
                                              !.hlen = hlen, !.turns = pure.turns + 1]
    /\ UNCHANGED <<storeVars, thr, callbackVars, profiles, quality, req, loop, contexts, used_templates, store, detector>>

\* lines 125-127: session management
FaultSessionStage ==
    /\ pure.pc = "session"
    /\ \E fault \in SessionFaults, v \in VarianceSamples :
          LET st1 == IF fault = "none" THEN FaultEnsure(v) ELSE St
              loc == IF fault = "none"
                     THEN [pure EXCEPT !.is_fresh = Len(st1.sessions[FaultSession].messages) = 0]
                     ELSE pure
          IN /\ FaultStore(st1)
             /\ pure' = FaultNext(loc, "session", fault, "replay")
    /\ UNCHANGED <<faultFrame, workers, profiles, quality>>

\* lines 135-143: the history is replayed; a raise of the extractor on the
\* first scammer message leaves the loop before the detector ran
FaultReplayStage ==
    /\ pure.pc = "replay"
    /\ \E fault \in ReplayFaults :
          /\ fault = "extract" => pure.hlen > 0
          /\ profiles' = IF fault = "none" /\ pure.is_fresh /\ pure.hlen > 0
                         THEN PutProfile(profiles, FaultSession,
                                  Replay(GetProfile(profiles, FaultSession), pure.text,
                                         ScammerMessages(pure.hlen)))
                         ELSE profiles
          /\ pure' = FaultNext(pure, "replay", fault, "risk")
    /\ UNCHANGED <<storeVars, thr, callbackVars, quality, req, loop, agentVars>>

\* lines 149-157: the current message is recorded and analysed, the scam
\* confirmation latched
FaultRiskStage ==
    /\ pure.pc = "risk"
    /\ \E fault \in RiskFaults, v \in VarianceSamples :
          LET st1 == FaultEnsure(v)
              d2 == AddMessage(st1.sessions[FaultSession], "scammer")
              a == AnalyzeMessage(GetProfile(profiles, FaultSession), pure.text)
              mark == a.is_scam /\ ~d2.scam_confirmed
              added == fault # "add_message"
              analysed == fault \notin {"add_message", "analyze_message"}
              marked == fault = "none" /\ mark
              d3 == IF marked THEN MarkScamConfirmed(d2) ELSE d2
              loc == IF analysed
                     THEN [pure EXCEPT !.cum_score = a.score, !.is_scam = a.is_scam]
                     ELSE pure
          IN /\ fault = "mark_scam_confirmed" => mark
             /\ FaultStore(IF added THEN [st1 EXCEPT !.sessions[FaultSession] = d3] ELSE St)
             /\ profiles' = IF analysed THEN PutProfile(profiles, FaultSession, a.profile)
                            ELSE profiles
             /\ pure' = FaultNext(loc, "risk", fault, "extract")
    /\ UNCHANGED <<faultFrame, workers, quality>>

\* lines 165-167: intelligence extraction
FaultExtractStage ==
    /\ pure.pc = "extract"
    /\ \E fault \in ExtractFaults :
          pure' = FaultNext([pure EXCEPT !.intel = NoIntelligence], "extract", fault, "signals")
    /\ UNCHANGED <<storeVars, thr, callbackVars, profiles, quality, req, loop, contexts, used_templates, store, detector>>

\* lines 174-177, in no try of their own
FaultSignals ==
    /\ pure.pc = "signals"
    /\ \E fault \in SignalFaults :
          LET loc == [pure EXCEPT !.total_messages = pure.hlen + 1] IN
          pure' = IF fault = "none"
                  THEN [loc EXCEPT !.pc = "reply", !.signals_triggered =
                                      GetProfile(profiles, FaultSession).triggered_signals]
                  ELSE FaultNext(loc, "top", fault, "reply")
    /\ UNCHANGED <<storeVars, thr, callbackVars, profiles, quality, req, loop, contexts, used_templates, store, detector>>

\* lines 180-194: the reply is generated and recorded
FaultReplyStage ==
    /\ pure.pc = "reply"
    /\ \E fault \in ReplyFaults, v \in VarianceSamples, kind \in FaultReplyKinds :
          LET st1 == FaultEnsure(v)
              d1 == st1.sessions[FaultSession]
              read == fault # "is_scam_confirmed"
              generated == fault \in {"none", "add_message"}
              d2 == IF fault = "none" THEN SetAgentResponse(AddMessage(d1, "agent"), kind)
                    ELSE d1
              loc1 == IF read
                      THEN [pure EXCEPT !.scam_confirmed_bound = TRUE,
                                        !.scam_confirmed = d1.scam_confirmed]
                      ELSE pure
              loc2 == IF generated THEN [loc1 EXCEPT !.reply = kind] ELSE loc1
          IN /\ FaultStore(IF read THEN [st1 EXCEPT !.sessions[FaultSession] = d2] ELSE St)
             /\ quality' = IF generated
                           THEN PutQuality(quality, FaultSession,
                                    RecordReply(GetQuality(quality, FaultSession), kind,
                                                pure.signals_triggered))
                           ELSE quality
             /\ pure' = FaultNext(loc2, "reply", fault, "callback")
    /\ UNCHANGED <<faultFrame, workers, profiles>>

\* lines 204-245: the send decision, the payload, mark_finalized and the
\* dispatch; line 209 raises NameError when scam_confirmed was never bound
FaultCallbackStage ==
    /\ pure.pc = "callback"
    /\ \E chosen \in CallbackFaults, v \in VarianceSamples :
          LET checked == chosen # "thresholds_met"
              st1 == IF checked THEN FaultEnsure(v) ELSE St
              quality_met == ThresholdsMet(GetQuality(quality, FaultSession))
              is_finalized == ~CanFinalize(st1.sessions[FaultSession])
              unbound == checked /\ ~pure.scam_confirmed_bound
              send == checked /\ ~unbound /\
                      ShouldSendCallback(pure.scam_confirmed, pure.total_messages,
                                         quality_met, is_finalized)
              fault == IF unbound THEN "NameError" ELSE chosen
              marked == send /\ fault \in {"none", "send_callback_async"}
              sent == send /\ fault = "none"
              st2 == IF marked /\ MarkFinalizedResult(st1, FaultSession)
                     THEN MarkFinalizedSet(st1, FaultSession) ELSE st1
              d == st1.sessions[FaultSession]
              profile == GetProfile(profiles, FaultSession)
              payload == BuildFinalOutput(FaultSession,
                             EffectiveScamDetected(pure.scam_confirmed, pure.total_messages),
                             IF profile.scam_type # "unknown" THEN profile.scam_type
                             ELSE "bank_fraud",
                             pure.intel,
                             GetTotalMessagesExchanged(d),
                             GetEngagementDuration(d, now),
                             "notes",
                             pure.cum_score)
          IN /\ chosen \in {"build_final_output", "mark_finalized", "send_callback_async"}
                    => send
             /\ sent => FreeWorkers # {}
             /\ FaultStore(st2)
             /\ workers' = IF sent
                           THEN [workers EXCEPT ![CHOOSE w \in FreeWorkers : TRUE] =
                                    StartedWorker(FaultSession, d.inc, Posted(payload))]
                           ELSE workers
             /\ pure' = FaultNext([pure EXCEPT !.callback_queued = sent],
                                  "callback", fault, "log")
    /\ UNCHANGED <<faultFrame, profiles, quality>>

\* the except clauses, lines 128-131, 144-146, 158-162, 168-171, 195-198,
\* 246-248 and 273-284
FaultExcept ==
    /\ pure.pc = "except"
    /\ pure' = CASE pure.raised = "session" -> [pure EXCEPT !.pc = "replay", !.is_fresh = TRUE]
                 [] pure.raised = "replay" -> [pure EXCEPT !.pc = "risk"]
                 [] pure.raised = "risk" ->
                        [pure EXCEPT !.pc = "extract", !.cum_score = 0, !.is_scam = FALSE]
                 [] pure.raised = "extract" -> [pure EXCEPT !.pc = "signals", !.intel = << >>]
                 [] pure.raised = "reply" ->
                        [pure EXCEPT !.pc = "callback", !.reply = FALLBACK_REPLY]
                 [] pure.raised = "callback" -> [pure EXCEPT !.pc = "log"]
                 [] pure.raised = "top" ->
                        [pure EXCEPT !.pc = "returned", !.response =
                            [status |-> "success", reply |-> FALLBACK_REPLY]]
    /\ UNCHANGED <<storeVars, thr, callbackVars, profiles, quality, req, loop, contexts, used_templates, store, detector>>

\* lines 250-259: the log line reads scam_confirmed
FaultLog ==
    /\ pure.pc = "log"
    /\ pure' = IF pure.scam_confirmed_bound THEN [pure EXCEPT !.pc = "return"]
               ELSE FaultNext(pure, "top", "NameError", "return")
    /\ UNCHANGED <<storeVars, thr, callbackVars, profiles, quality, req, loop, contexts, used_templates, store, detector>>

\* lines 114-117 and 271: the response
FaultReturn ==
    /\ pure.pc = "return"
    /\ pure' = [pure EXCEPT !.pc = "returned",
                            !.response = [status |-> "success", reply |-> pure.reply]]
    /\ UNCHANGED <<storeVars, thr, callbackVars, profiles, quality, req, loop, contexts, used_templates, store, detector>>

\* the next request of the client
FaultDone ==
    /\ pure.pc = "returned"
    /\ pure' = [FaultLocals EXCEPT !.turns = pure.turns]
    /\ UNCHANGED <<storeVars, thr, callbackVars, profiles, quality, req, loop, contexts, used_templates, store, detector>>

InitFault ==
    /\ StoreInit
    /\ thr = [t \in Threads |-> IdleThread]
    /\ CallbackIdle
    /\ RiskIdle
    /\ HandlerIdle
    /\ pure = FaultLocals

NextFault ==
    \/ FaultReceive
    \/ FaultSessionStage
    \/ FaultReplayStage
    \/ FaultRiskStage
    \/ FaultExtractStage
    \/ FaultSignals
    \/ FaultReplyStage
    \/ FaultCallbackStage
    \/ FaultExcept
    \/ FaultLog
    \/ FaultReturn
    \/ FaultDone

SpecFault == InitFault /\ [][NextFault]_vars

\* ------------------------------------------------------------------------
\* Claims on process_message with failing components
\* ------------------------------------------------------------------------
FaultLatches ==
    IF FaultSession \in DOMAIN sessions
    THEN [scam_confirmed |-> sessions[FaultSession].scam_confirmed,
          final_submitted |-> sessions[FaultSession].final_submitted]
    ELSE [scam_confirmed |-> FALSE, final_submitted |-> FALSE]

\* C20: whichever stage of the pipeline raises (session lookup, history
\* replay, risk analysis, extraction, reply generation, callback dispatch),
\* the handler returns status "success" with a non-empty reply, which is
\* "Sorry, could you explain that again?" when reply generation failed; the
\* except clause that takes the failure leaves scam_confirmed and
\* final_submitted as they were when the stage raised, and no step of the
\* handler takes either back from True to False.
C20_FaultTolerance ==
    [][/\ (pure.pc # "returned" /\ pure'.pc = "returned") =>
              /\ pure'.response.status = "success"
              /\ pure'.response.reply \notin {"", None}
              /\ "reply" \in pure'.failed => pure'.response.reply = FALLBACK_REPLY
       /\ pure.pc = "except" => FaultLatches' = FaultLatches
       /\ FaultLatches.scam_confirmed => FaultLatches'.scam_confirmed
       /\ FaultLatches.final_submitted => FaultLatches'.final_submitted]_vars

\* a request returned after its reply generation and its dispatch both
\* raised, the session confirmed as a scam and finalized
C20_Witness ==
    /\ pure.fn = "process_message"
    /\ pure.pc = "returned"
    /\ {"reply", "callback"} \subseteq pure.failed
    /\ pure.response.reply = FALLBACK_REPLY
    /\ FaultLatches.scam_confirmed
    /\ FaultLatches.final_submitted

\* the characters of the messages of the model
SPC == " "
Lowercase ==
    {"a", "b", "c", "d", "e", "f", "g", "h", "i", "j", "k", "l", "m", "n", "o", "p", "q", "r",
     "s", "t", "u", "v", "w", "x", "y", "z"}
Uppercase ==
    {"A", "B", "C", "D", "E", "F", "G", "H", "I", "J", "K", "L", "M", "N", "O", "P", "Q", "R",
     "S", "T", "U", "V", "W", "X", "Y", "Z"}
Digits == {"0", "1", "2", "3", "4", "5", "6", "7", "8", "9"}
Alphabet ==
    Lowercase \cup Uppercase \cup Digits \cup
    {SPC, "+", "-", "(", ")", ".", ":", "/", "@", "#", "_", ","}


\* ------------------------------------------------------------------------
\* Regular expressions (module re), as the extractor uses them: a text is a
\* tuple of characters, a pattern a tuple of nodes, matched with the
\* priorities of the backtracking matcher (greedy repeats, alternatives in
\* order, leftmost match first)
\* ------------------------------------------------------------------------
RepCap == 40       \* at least the length of any text of the model

\* the nodes: characters of the given classes one after the other, a class
\* repeated, a group repeated, alternatives, a negative lookahead, \b and
\* the two ends of group 1
Chs(sets) == [t |-> "chs", sets |-> sets]
Run(lo, hi, s) == [t |-> "run", lo |-> lo, hi |-> hi, s |-> s]
Rep(lo, hi, sub) == [t |-> "rep", lo |-> lo, hi |-> hi, sub |-> sub]
Alt(subs) == [t |-> "alt", subs |-> subs]
Not(sub) == [t |-> "not", sub |-> sub]
B == [t |-> "b"]
Open == [t |-> "open"]
Close == [t |-> "close"]

\* IntelligenceStore._UPI_PROVIDERS (lines 291-310)
UPI_PROVIDERS ==
    {<<"a", "i", "r", "t", "e", "l">>, <<"a", "i", "r", "t", "e", "l", "p", "a", "y", "m", "e",
     "n", "t", "s", "b", "a", "n", "k">>, <<"a", "m", "a", "z", "o", "n", "p", "a", "y">>,
     <<"a", "p", "l">>, <<"a", "u", "b", "a", "n", "k">>, <<"a", "x", "i", "s", "b">>, <<"a",
     "x", "i", "s", "b", "a", "n", "k">>, <<"a", "x", "l">>, <<"b", "a", "n", "d", "h", "a",
     "n">>, <<"b", "a", "r", "o", "d", "a", "p", "a", "y">>, <<"b", "h", "a", "r", "a", "t",
     "p", "e">>, <<"b", "o", "b">>, <<"b", "o", "b", "b", "a", "n", "k">>, <<"b", "o", "i">>,
     <<"b", "o", "i", "b", "a", "n", "k">>, <<"c", "a", "n", "a", "r", "a">>, <<"c", "a", "n",
     "a", "r", "a", "b", "a", "n", "k">>, <<"c", "b", "i">>, <<"c", "e", "n", "t", "r", "a",
     "l", "b", "a", "n", "k">>, <<"c", "i", "t", "i">>, <<"c", "r", "e", "d">>, <<"d", "b",
     "s">>, <<"d", "b", "s", "b", "a", "n", "k">>, <<"d", "c", "b">>, <<"d", "l", "b">>, <<"e",
     "q", "u", "i", "t", "a", "s">>, <<"e", "s", "a", "f">>, <<"f", "a", "k", "e", "b", "a",
     "n", "k">>, <<"f", "a", "k", "e", "u", "p", "i">>, <<"f", "a", "m">>, <<"f", "e", "d", "e",
     "r", "a", "l">>, <<"f", "i">>, <<"f", "i", "n", "o">>, <<"f", "r", "e", "e", "c", "h", "a",
     "r", "g", "e">>, <<"g", "o", "o", "g", "l", "e", "p", "a", "y">>, <<"g", "p", "a", "y">>,
     <<"g", "r", "o", "w", "w">>, <<"h", "d", "f", "c">>, <<"h", "d", "f", "c", "b", "a", "n",
     "k">>, <<"h", "s", "b", "c">>, <<"i", "b", "l">>, <<"i", "c", "i", "c", "i">>, <<"i", "c",
     "i", "c", "i", "b", "a", "n", "k">>, <<"i", "d", "b", "i">>, <<"i", "k", "w", "i", "k">>,
     <<"i", "n", "d", "i", "a", "n", "b", "a", "n", "k">>, <<"i", "n", "d", "u", "s">>, <<"i",
     "o", "b">>, <<"i", "o", "b", "b", "a", "n", "k">>, <<"j", "i", "o">>, <<"j", "i", "o", "m",
     "o", "n", "e", "y">>, <<"j", "k", "b">>, <<"j", "u", "p", "i", "t", "e", "r">>, <<"k", "o",
     "t", "a", "k">>, <<"k", "o", "t", "a", "k", "b", "a", "n", "k">>, <<"k", "v", "b">>, <<"l",
     "v", "b">>, <<"m", "a", "i", "r", "t", "e", "l">>, <<"m", "o", "b", "i", "k", "w", "i",
     "k">>, <<"m", "y", "i", "c", "i", "c", "i">>, <<"n", "a", "v", "i">>, <<"o", "k", "a", "x",
     "i", "s">>, <<"o", "k", "h", "d", "f", "c", "b", "a", "n", "k">>, <<"o", "k", "i", "c",
     "i", "c", "i">>, <<"o", "k", "s", "b", "i">>, <<"o", "l", "a">>, <<"o", "x", "i", "g", "e",
     "n">>, <<"p", "a", "y", "t", "m">>, <<"p", "a", "y", "t", "m", "p", "a", "y", "m", "e",
     "n", "t", "s", "b", "a", "n", "k">>, <<"p", "a", "y", "z", "a", "p", "p">>, <<"p", "h",
     "o", "n", "e", "p", "e">>, <<"p", "i", "n", "g", "p", "a", "y">>, <<"p", "n", "b">>, <<"p",
     "n", "b", "b", "a", "n", "k">>, <<"p", "o", "s", "t", "p", "e">>, <<"r", "a", "p", "l">>,
     <<"r", "b", "l">>, <<"r", "b", "l", "b", "a", "n", "k">>, <<"s", "b", "i">>, <<"s", "b",
     "i", "b", "a", "n", "k">>, <<"s", "c", "b">>, <<"s", "h", "i", "v", "a", "l", "i", "k">>,
     <<"s", "l", "i", "c", "e">>, <<"s", "u", "r", "y", "o", "d", "a", "y">>, <<"t", "m", "b">>,
     <<"u", "j", "j", "i", "v", "a", "n">>, <<"u", "n", "i", "o", "n">>, <<"u", "n", "i", "o",
     "n", "b", "a", "n", "k">>, <<"u", "p", "i">>, <<"u", "t", "k", "a", "r", "s", "h">>, <<"w",
     "a", "a", "x", "i", "s">>, <<"w", "a", "h", "d", "f", "c", "b", "a", "n", "k">>, <<"w",
     "a", "i", "c", "i", "c", "i">>, <<"w", "a", "s", "b", "i">>, <<"y", "b", "l">>, <<"y", "e",
     "s", "b", "a", "n", "k">>, <<"y", "e", "s", "p", "a", "y">>}

\* IntelligenceStore._EMAIL_DOMAINS (lines 313-317)
EMAIL_DOMAINS ==
    {<<"a", "o", "l">>, <<"g", "m", "a", "i", "l">>, <<"h", "o", "t", "m", "a", "i", "l">>,
     <<"i", "c", "l", "o", "u", "d">>, <<"l", "i", "v", "e">>, <<"m", "a", "i", "l">>, <<"m",
     "e">>, <<"m", "s", "n">>, <<"o", "u", "t", "l", "o", "o", "k">>, <<"p", "m">>, <<"p", "r",
     "o", "t", "o", "n", "m", "a", "i", "l">>, <<"r", "e", "d", "i", "f", "f", "m", "a", "i",
     "l">>, <<"t", "u", "t", "a", "n", "o", "t", "a">>, <<"y", "a", "h", "o", "o">>, <<"y", "a",
     "n", "d", "e", "x">>, <<"z", "o", "h", "o">>}

\* IntelligenceStore.PHONE_PATTERNS (lines 107-138)
PHONE_PATTERNS ==
   <<
      [groups |-> 0, nodes |->
        <<Chs(<<{"+"}, {"9"}, {"1"}>>), Run(0, 1, {SPC, "-"}), Chs(<<{"6", "7", "8", "9"}>>),
        Run(9, 9, Digits), B>>],
      [groups |-> 0, nodes |->
        <<Chs(<<{"+"}, {"9"}, {"1"}>>), Run(0, 1, {SPC, "-"}), Chs(<<{"6", "7", "8", "9"}>>),
        Run(4, 4, Digits), Chs(<<{SPC, "-"}>>), Run(5, 5, Digits)>>],
      [groups |-> 0, nodes |->
        <<Chs(<<{"+"}, {"9"}, {"1"}>>), Run(0, 1, {SPC, "-"}), Chs(<<{"6", "7", "8", "9"}>>),
        Run(2, 2, Digits), Chs(<<{SPC, "-"}>>), Run(3, 3, Digits), Chs(<<{SPC, "-"}>>), Run(4,
        4, Digits)>>],
      [groups |-> 0, nodes |->
        <<Chs(<<{"("}, {"+"}, {"9"}, {"1"}, {")"}>>), Run(0, 1, {SPC, "-"}), Chs(<<{"6", "7",
        "8", "9"}>>), Run(9, 9, Digits)>>],
      [groups |-> 0, nodes |->
        <<Chs(<<{"+"}, {"9"}, {"1"}>>), Run(0, 1, {SPC, "-"}), Chs(<<{"("}, {"6", "7", "8",
        "9"}>>), Run(2, 2, Digits), Chs(<<{")"}>>), Run(0, 1, {SPC, "-"}), Run(3, 3, Digits),
        Run(0, 1, {SPC, "-"}), Run(4, 4, Digits)>>],
      [groups |-> 0, nodes |->
        <<B, Chs(<<{"9"}, {"1"}>>), Run(0, 1, {SPC, "-"}), Chs(<<{"6", "7", "8", "9"}>>), Run(9,
        9, Digits), B>>],
      [groups |-> 0, nodes |->
        <<B, Chs(<<{"9"}, {"1"}>>), Run(0, 1, {SPC, "-"}), Chs(<<{"6", "7", "8", "9"}>>), Run(4,
        4, Digits), Chs(<<{SPC, "-"}>>), Run(5, 5, Digits), B>>],
      [groups |-> 0, nodes |->
        <<B, Chs(<<{"0"}, {"6", "7", "8", "9"}>>), Run(9, 9, Digits), B>>],
      [groups |-> 0, nodes |->
        <<B, Chs(<<{"0"}, {"6", "7", "8", "9"}>>), Run(4, 4, Digits), Chs(<<{SPC, "-"}>>),
        Run(5, 5, Digits), B>>],
      [groups |-> 0, nodes |->
        <<B, Chs(<<{"6", "7", "8", "9"}>>), Run(9, 9, Digits), B>>],
      [groups |-> 0, nodes |->
        <<B, Chs(<<{"6", "7", "8", "9"}>>), Run(4, 4, Digits), Chs(<<{SPC, "-"}>>), Run(5, 5,
        Digits), B>>],
      [groups |-> 0, nodes |->
        <<B, Chs(<<{"6", "7", "8", "9"}>>), Run(3, 3, Digits), Chs(<<{SPC, "-"}>>), Run(6, 6,
        Digits), B>>],
      [groups |-> 0, nodes |->
        <<B, Chs(<<{"6", "7", "8", "9"}>>), Run(2, 2, Digits), Chs(<<{SPC, "-"}>>), Run(3, 3,
        Digits), Chs(<<{SPC, "-"}>>), Run(4, 4, Digits), B>>],
      [groups |-> 0, nodes |->
        <<B, Chs(<<{"1"}, {"8"}, {"0"}, {"0"}>>), Run(0, 1, {SPC, "-"}), Run(3, 3, Digits),
        Run(0, 1, {SPC, "-"}), Run(4, 5, Digits), B>>],
      [groups |-> 0, nodes |->
        <<B, Chs(<<{"1"}, {"8"}, {"6"}, {"0"}>>), Run(0, 1, {SPC, "-"}), Run(3, 3, Digits),
        Run(0, 1, {SPC, "-"}), Run(4, 5, Digits), B>>],
      [groups |-> 0, nodes |->
        <<B, Chs(<<{"0"}>>), Run(2, 4, Digits), Run(0, 1, {SPC, "-"}), Run(6, 8, Digits), B>>],
      [groups |-> 1, nodes |->
        <<B, Chs(<<{"w"}, {"a"}, {"."}, {"m"}, {"e"}, {"/"}>>), Rep(0, 1, <<Open, Run(0, 1,
        {"+"}), Chs(<<{"9"}, {"1"}>>), Close>>), Chs(<<{"6", "7", "8", "9"}>>), Run(9, 9,
        Digits), B>>],
      [groups |-> 0, nodes |->
        <<B, Chs(<<{"6", "7", "8", "9"}, {SPC}, Digits, {SPC}, Digits, {SPC}, Digits, {SPC},
        Digits, {SPC}, Digits, {SPC}, Digits, {SPC}, Digits, {SPC}, Digits, {SPC}, Digits>>),
        B>>],
      [groups |-> 1, nodes |->
        <<Alt(<<<<Chs(<<{"c"}, {"a"}, {"l"}, {"l"}>>)>>, <<Chs(<<{"p"}, {"h"}, {"o"}, {"n"},
        {"e"}>>)>>, <<Chs(<<{"m"}, {"o"}, {"b"}, {"i"}, {"l"}, {"e"}>>)>>, <<Chs(<<{"c"}, {"o"},
        {"n"}, {"t"}, {"a"}, {"c"}, {"t"}>>)>>, <<Chs(<<{"w"}, {"h"}, {"a"}, {"t"}, {"s"},
        {"a"}, {"p"}, {"p"}>>)>>, <<Chs(<<{"n"}, {"u"}, {"m"}, {"b"}, {"e"}, {"r"}>>)>>,
        <<Chs(<<{"n"}, {"o"}>>)>>, <<Chs(<<{"r"}, {"e"}, {"a"}, {"c"}, {"h"}>>)>>>>), Run(0,
        RepCap, {SPC}), Rep(0, 1, <<Chs(<<{"m"}, {"e"}>>), Run(0, RepCap, {SPC})>>), Rep(0, 1,
        <<Alt(<<<<Chs(<<{"a"}, {"t"}>>)>>, <<Chs(<<{"o"}, {"n"}>>)>>, <<Chs(<<{":"}>>)>>,
        <<Chs(<<{"-"}>>)>>>>)>>), Run(0, RepCap, {SPC}), Rep(0, 1, <<Run(0, 1, {"+"}),
        Chs(<<{"9"}, {"1"}>>), Run(0, 1, {SPC, "-"})>>), Open, Chs(<<{"6", "7", "8", "9"}>>),
        Run(9, 9, Digits), Close>>],
      [groups |-> 1, nodes |->
        <<Alt(<<<<Chs(<<{"c"}, {"a"}, {"l"}, {"l"}>>)>>, <<Chs(<<{"p"}, {"h"}, {"o"}, {"n"},
        {"e"}>>)>>, <<Chs(<<{"m"}, {"o"}, {"b"}, {"i"}, {"l"}, {"e"}>>)>>, <<Chs(<<{"c"}, {"o"},
        {"n"}, {"t"}, {"a"}, {"c"}, {"t"}>>)>>, <<Chs(<<{"w"}, {"h"}, {"a"}, {"t"}, {"s"},
        {"a"}, {"p"}, {"p"}>>)>>, <<Chs(<<{"n"}, {"u"}, {"m"}, {"b"}, {"e"}, {"r"}>>)>>,
        <<Chs(<<{"n"}, {"o"}>>)>>, <<Chs(<<{"r"}, {"e"}, {"a"}, {"c"}, {"h"}>>)>>>>), Run(0,
        RepCap, {SPC}), Rep(0, 1, <<Chs(<<{"m"}, {"e"}>>), Run(0, RepCap, {SPC})>>), Rep(0, 1,
        <<Alt(<<<<Chs(<<{"a"}, {"t"}>>)>>, <<Chs(<<{"o"}, {"n"}>>)>>, <<Chs(<<{":"}>>)>>,
        <<Chs(<<{"-"}>>)>>>>)>>), Run(0, RepCap, {SPC}), Rep(0, 1, <<Run(0, 1, {"+"}),
        Chs(<<{"9"}, {"1"}>>), Run(0, 1, {SPC, "-"})>>), Open, Chs(<<{"6", "7", "8", "9"}>>),
        Run(4, 4, Digits), Chs(<<{SPC, "-"}>>), Run(5, 5, Digits), Close>>]
   >>

\* IntelligenceStore.BANK_ACCOUNT_PATTERN (line 143)
BANK_ACCOUNT_PATTERN ==
   <<
      [groups |-> 0, nodes |->
        <<B, Run(9, 18, Digits), B>>]
   >>

\* IntelligenceStore.CONTEXTUAL_BANK_PATTERNS (lines 146-153), matched with re.IGNORECASE
CONTEXTUAL_BANK_PATTERNS ==
   <<
      [groups |-> 1, nodes |->
        <<Chs(<<{"A", "a"}>>), Alt(<<<<Chs(<<{"C", "c"}, {"C", "c"}, {"O", "o"}, {"U", "u"},
        {"N", "n"}, {"T", "t"}>>)>>, <<Chs(<<{"/"}, {"C", "c"}>>)>>, <<Chs(<<{"C", "c"}, {"C",
        "c"}, {"T", "t"}>>)>>, <<Chs(<<{"C", "c"}, {"C", "c"}>>)>>>>), Run(0, RepCap, {SPC}),
        Rep(0, 1, <<Alt(<<<<Chs(<<{"N", "n"}, {"O", "o"}>>)>>, <<Chs(<<{"N", "n"}, {"U", "u"},
        {"M", "m"}, {"B", "b"}, {"E", "e"}, {"R", "r"}>>)>>, <<Chs(<<{"N", "n"}, {"U", "u"},
        {"M", "m"}>>)>>, <<Chs(<<{"#"}>>)>>>>)>>), Run(0, RepCap, {SPC, "#", "-", ".", ":"}),
        Open, Run(6, 18, Digits), Close>>],
      [groups |-> 1, nodes |->
        <<Chs(<<{"B", "b"}, {"A", "a"}, {"N", "n"}, {"K", "k"}>>), Run(0, RepCap, {SPC}),
        Chs(<<{"A", "a"}>>), Alt(<<<<Chs(<<{"C", "c"}, {"C", "c"}, {"O", "o"}, {"U", "u"}, {"N",
        "n"}, {"T", "t"}>>)>>, <<Chs(<<{"/"}, {"C", "c"}>>)>>>>), Run(0, RepCap, {SPC}), Rep(0,
        1, <<Alt(<<<<Chs(<<{"N", "n"}, {"O", "o"}>>)>>, <<Chs(<<{"N", "n"}, {"U", "u"}, {"M",
        "m"}, {"B", "b"}, {"E", "e"}, {"R", "r"}>>)>>, <<Chs(<<{"N", "n"}, {"U", "u"}, {"M",
        "m"}>>)>>, <<Chs(<<{"#"}>>)>>>>)>>), Run(0, RepCap, {SPC, "#", "-", ".", ":"}), Open,
        Run(6, 18, Digits), Close>>],
      [groups |-> 1, nodes |->
        <<Alt(<<<<Chs(<<{"T", "t"}, {"R", "r"}, {"A", "a"}, {"N", "n"}, {"S", "s"}, {"F", "f"},
        {"E", "e"}, {"R", "r"}>>), Run(0, RepCap, {SPC}), Chs(<<{"T", "t"}, {"O", "o"}>>)>>,
        <<Chs(<<{"D", "d"}, {"E", "e"}, {"P", "p"}, {"O", "o"}, {"S", "s"}, {"I", "i"}, {"T",
        "t"}>>), Run(0, RepCap, {SPC}), Chs(<<{"T", "t"}, {"O", "o"}>>)>>, <<Chs(<<{"S", "s"},
        {"E", "e"}, {"N", "n"}, {"D", "d"}>>), Run(0, RepCap, {SPC}), Chs(<<{"T", "t"}, {"O",
        "o"}>>)>>, <<Chs(<<{"C", "c"}, {"R", "r"}, {"E", "e"}, {"D", "d"}, {"I", "i"}, {"T",
        "t"}>>), Run(0, RepCap, {SPC}), Chs(<<{"T", "t"}, {"O", "o"}>>)>>>>), Run(0, RepCap,
        {SPC}), Rep(0, 1, <<Chs(<<{"A", "a"}, {"C", "c"}, {"C", "c"}, {"O", "o"}, {"U", "u"},
        {"N", "n"}, {"T", "t"}>>), Run(0, RepCap, {SPC})>>), Open, Run(9, 18, Digits), Close>>],
      [groups |-> 1, nodes |->
        <<Alt(<<<<Chs(<<{"B", "b"}, {"E", "e"}, {"N", "n"}, {"E", "e"}, {"F", "f"}, {"I", "i"},
        {"C", "c"}, {"I", "i"}, {"A", "a"}, {"R", "r"}, {"Y", "y"}>>)>>, <<Chs(<<{"P", "p"},
        {"A", "a"}, {"Y", "y"}, {"E", "e"}, {"E", "e"}>>)>>, <<Chs(<<{"R", "r"}, {"E", "e"},
        {"C", "c"}, {"E", "e"}, {"I", "i"}, {"V", "v"}, {"E", "e"}, {"R", "r"}>>)>>>>), Run(0,
        RepCap, {SPC}), Rep(0, 1, <<Chs(<<{"A", "a"}>>), Alt(<<<<Chs(<<{"C", "c"}, {"C", "c"},
        {"O", "o"}, {"U", "u"}, {"N", "n"}, {"T", "t"}>>)>>, <<Chs(<<{"/"}, {"C",
        "c"}>>)>>>>)>>), Run(0, RepCap, {SPC}), Rep(0, 1, <<Chs(<<{"N", "n"}>>),
        Alt(<<<<Chs(<<{"O", "o"}>>)>>, <<Chs(<<{"U", "u"}, {"M", "m"}, {"B", "b"}, {"E", "e"},
        {"R", "r"}>>)>>>>)>>), Run(0, RepCap, {SPC, "#", "-", ".", ":"}), Open, Run(9, 18,
        Digits), Close>>],
      [groups |-> 1, nodes |->
        <<Alt(<<<<Chs(<<{"S", "s"}, {"A", "a"}, {"V", "v"}, {"I", "i"}, {"N", "n"}, {"G",
        "g"}>>), Run(0, 1, {"S", "s"})>>, <<Chs(<<{"C", "c"}, {"U", "u"}, {"R", "r"}, {"R",
        "r"}, {"E", "e"}, {"N", "n"}, {"T", "t"}>>)>>, <<Chs(<<{"F", "f"}, {"I", "i"}, {"X",
        "x"}, {"E", "e"}, {"D", "d"}>>), Run(0, RepCap, {SPC}), Chs(<<{"D", "d"}, {"E", "e"},
        {"P", "p"}, {"O", "o"}, {"S", "s"}, {"I", "i"}, {"T", "t"}>>)>>, <<Chs(<<{"F", "f"},
        {"D", "d"}>>)>>>>), Run(0, RepCap, {SPC}), Chs(<<{"A", "a"}>>), Alt(<<<<Chs(<<{"C",
        "c"}, {"C", "c"}, {"O", "o"}, {"U", "u"}, {"N", "n"}, {"T", "t"}>>)>>, <<Chs(<<{"/"},
        {"C", "c"}>>)>>>>), Run(0, RepCap, {SPC}), Rep(0, 1, <<Chs(<<{"N", "n"}>>),
        Alt(<<<<Chs(<<{"O", "o"}>>)>>, <<Chs(<<{"U", "u"}, {"M", "m"}, {"B", "b"}, {"E", "e"},
        {"R", "r"}>>)>>>>)>>), Run(0, RepCap, {SPC, "#", "-", ".", ":"}), Open, Run(9, 18,
        Digits), Close>>],
      [groups |-> 1, nodes |->
        <<Chs(<<{"A", "a"}, {"C", "c"}, {"C", "c"}, {"O", "o"}, {"U", "u"}, {"N", "n"}, {"T",
        "t"}>>), Run(0, RepCap, {SPC}), Alt(<<<<Chs(<<{"H", "h"}, {"O", "o"}, {"L", "l"}, {"D",
        "d"}, {"E", "e"}, {"R", "r"}>>)>>, <<Chs(<<{"N", "n"}, {"A", "a"}, {"M", "m"}, {"E",
        "e"}>>)>>, <<Chs(<<{"D", "d"}, {"E", "e"}, {"T", "t"}, {"A", "a"}, {"I", "i"}, {"L",
        "l"}, {"S", "s"}>>)>>>>), Run(0, RepCap, {SPC}), Run(0, 30, Alphabet), Open, Run(9, 18,
        Digits), Close>>]
   >>

\* IntelligenceStore.UPI_PATTERN (line 158), matched with re.IGNORECASE
UPI_PATTERN ==
   <<
      [groups |-> 0, nodes |->
        <<B, Run(2, RepCap, (Lowercase \cup Uppercase \cup Digits \cup {"-", ".", "_"})),
        Chs(<<{"@"}, (Lowercase \cup Uppercase)>>), Run(1, 30, (Lowercase \cup Uppercase \cup
        Digits)), B, Not(<<Chs(<<{"-", "."}, (Lowercase \cup Uppercase \cup Digits)>>)>>)>>]
   >>

\* IntelligenceStore.CONTEXTUAL_UPI_PATTERNS (lines 161-163), matched with re.IGNORECASE
CONTEXTUAL_UPI_PATTERNS ==
   <<
      [groups |-> 1, nodes |->
        <<Alt(<<<<Chs(<<{"U", "u"}, {"P", "p"}, {"I", "i"}>>), Run(0, RepCap, {SPC}),
        Alt(<<<<Chs(<<{"I", "i"}, {"D", "d"}>>)>>, <<Chs(<<{"A", "a"}, {"D", "d"}, {"D", "d"},
        {"R", "r"}, {"E", "e"}, {"S", "s"}, {"S", "s"}>>)>>, <<Chs(<<{"H", "h"}, {"A", "a"},
        {"N", "n"}, {"D", "d"}, {"L", "l"}, {"E", "e"}>>)>>, <<Chs(<<{"V", "v"}, {"P", "p"},
        {"A", "a"}>>)>>>>)>>, <<Chs(<<{"P", "p"}, {"A", "a"}, {"Y", "y"}>>), Run(0, RepCap,
        {SPC}), Chs(<<{"T", "t"}, {"O", "o"}>>)>>, <<Chs(<<{"S", "s"}, {"E", "e"}, {"N", "n"},
        {"D", "d"}>>), Run(0, RepCap, {SPC}), Chs(<<{"T", "t"}, {"O", "o"}>>)>>, <<Chs(<<{"T",
        "t"}, {"R", "r"}, {"A", "a"}, {"N", "n"}, {"S", "s"}, {"F", "f"}, {"E", "e"}, {"R",
        "r"}>>), Run(0, RepCap, {SPC}), Chs(<<{"T", "t"}, {"O", "o"}>>)>>>>), Run(0, RepCap,
        {SPC}), Run(0, RepCap, {SPC, "#", "-", ".", ":"}), Open, Run(2, RepCap, (Lowercase \cup
        Uppercase \cup Digits \cup {"-", ".", "_"})), Chs(<<{"@"}, (Lowercase \cup
        Uppercase)>>), Run(1, 30, (Lowercase \cup Uppercase \cup Digits)), Close>>]
   >>

\* IntelligenceStore.EMAIL_PATTERN (line 168)
EMAIL_PATTERN ==
   <<
      [groups |-> 0, nodes |->
        <<B, Run(1, RepCap, (Alphabet \ {SPC, "#", "(", ")", ",", "/", ":", "@"})),
        Chs(<<{"@"}>>), Run(1, RepCap, (Lowercase \cup Uppercase \cup Digits \cup {"-", "."})),
        Chs(<<{"."}>>), Run(2, RepCap, (Lowercase \cup Uppercase)), B>>]
   >>

\* IntelligenceStore.URL_PATTERNS (lines 173-183), matched with re.IGNORECASE
URL_PATTERNS ==
   <<
      [groups |-> 0, nodes |->
        <<Chs(<<{"H", "h"}, {"T", "t"}, {"T", "t"}, {"P", "p"}>>), Run(0, 1, {"S", "s"}),
        Chs(<<{":"}, {"/"}, {"/"}>>), Run(1, RepCap, (Alphabet \ {SPC}))>>],
      [groups |-> 0, nodes |->
        <<B, Alt(<<<<Chs(<<{"B", "b"}, {"I", "i"}, {"T", "t"}, {"."}, {"L", "l"}, {"Y",
        "y"}>>)>>, <<Chs(<<{"T", "t"}, {"I", "i"}, {"N", "n"}, {"Y", "y"}, {"U", "u"}, {"R",
        "r"}, {"L", "l"}, {"."}, {"C", "c"}, {"O", "o"}, {"M", "m"}>>)>>, <<Chs(<<{"G", "g"},
        {"O", "o"}, {"O", "o"}, {"."}, {"G", "g"}, {"L", "l"}>>)>>, <<Chs(<<{"T", "t"}, {"."},
        {"C", "c"}, {"O", "o"}>>)>>, <<Chs(<<{"R", "r"}, {"B", "b"}, {"."}, {"G", "g"}, {"Y",
        "y"}>>)>>, <<Chs(<<{"I", "i"}, {"S", "s"}, {"."}, {"G", "g"}, {"D", "d"}>>)>>,
        <<Chs(<<{"C", "c"}, {"U", "u"}, {"T", "t"}, {"T", "t"}, {"."}, {"L", "l"}, {"Y",
        "y"}>>)>>, <<Chs(<<{"S", "s"}, {"H", "h"}, {"O", "o"}, {"R", "r"}, {"T", "t"}, {"U",
        "u"}, {"R", "r"}, {"L", "l"}, {"."}, {"A", "a"}, {"T", "t"}>>)>>, <<Chs(<<{"O", "o"},
        {"W", "w"}, {"."}, {"L", "l"}, {"Y", "y"}>>)>>, <<Chs(<<{"T", "t"}, {"I", "i"}, {"N",
        "n"}, {"Y", "y"}, {"."}, {"C", "c"}, {"C", "c"}>>)>>, <<Chs(<<{"V", "v"}, {"."}, {"G",
        "g"}, {"D", "d"}>>)>>, <<Chs(<<{"S", "s"}, {"."}, {"I", "i"}, {"D", "d"}>>)>>,
        <<Chs(<<{"C", "c"}, {"L", "l"}, {"C", "c"}, {"K", "k"}, {"."}, {"R", "r"}, {"U",
        "u"}>>)>>, <<Chs(<<{"R", "r"}, {"E", "e"}, {"B", "b"}, {"R", "r"}, {"A", "a"}, {"N",
        "n"}, {"D", "d"}, {"."}, {"L", "l"}, {"Y", "y"}>>)>>>>), Chs(<<{"/"}>>), Run(1, RepCap,
        (Lowercase \cup Uppercase \cup Digits \cup {"-", "_"}))>>],
      [groups |-> 0, nodes |->
        <<B, Chs(<<{"W", "w"}, {"A", "a"}, {"."}, {"M", "m"}, {"E", "e"}, {"/"}>>), Run(1,
        RepCap, Digits)>>],
      [groups |-> 0, nodes |->
        <<B, Chs(<<{"T", "t"}, {"."}, {"M", "m"}, {"E", "e"}, {"/"}>>), Run(1, RepCap,
        (Lowercase \cup Uppercase \cup Digits \cup {"_"}))>>],
      [groups |-> 0, nodes |->
        <<B, Run(4, RepCap, (Lowercase \cup Uppercase \cup Digits)), Chs(<<{"."}>>),
        Alt(<<<<Chs(<<{"X", "x"}, {"Y", "y"}, {"Z", "z"}>>)>>, <<Chs(<<{"T", "t"}, {"O", "o"},
        {"P", "p"}>>)>>, <<Chs(<<{"O", "o"}, {"N", "n"}, {"L", "l"}, {"I", "i"}, {"N", "n"},
        {"E", "e"}>>)>>, <<Chs(<<{"S", "s"}, {"I", "i"}, {"T", "t"}, {"E", "e"}>>)>>,
        <<Chs(<<{"W", "w"}, {"O", "o"}, {"R", "r"}, {"K", "k"}>>)>>, <<Chs(<<{"C", "c"}, {"L",
        "l"}, {"I", "i"}, {"C", "c"}, {"K", "k"}>>)>>, <<Chs(<<{"L", "l"}, {"I", "i"}, {"V",
        "v"}, {"E", "e"}>>)>>, <<Chs(<<{"C", "c"}, {"L", "l"}, {"U", "u"}, {"B", "b"}>>)>>,
        <<Chs(<<{"F", "f"}, {"U", "u"}, {"N", "n"}>>)>>, <<Chs(<<{"I", "i"}, {"C", "c"}, {"U",
        "u"}>>)>>, <<Chs(<<{"B", "b"}, {"U", "u"}, {"Z", "z"}, {"Z", "z"}>>)>>, <<Chs(<<{"O",
        "o"}, {"O", "o"}, {"O", "o"}>>)>>, <<Chs(<<{"R", "r"}, {"E", "e"}, {"S", "s"}, {"T",
        "t"}>>)>>, <<Chs(<<{"C", "c"}, {"A", "a"}, {"M", "m"}>>)>>, <<Chs(<<{"L", "l"}, {"O",
        "o"}, {"A", "a"}, {"N", "n"}>>)>>, <<Chs(<<{"W", "w"}, {"I", "i"}, {"N", "n"}>>)>>,
        <<Chs(<<{"B", "b"}, {"I", "i"}, {"D", "d"}>>)>>>>), Run(0, RepCap, (Alphabet \ {SPC}))>>],
      [groups |-> 0, nodes |->
        <<B, Alt(<<<<Chs(<<{"F", "f"}, {"O", "o"}, {"R", "r"}, {"M", "m"}>>), Run(0, 1, {"S",
        "s"}), Chs(<<{"."}, {"G", "g"}, {"O", "o"}, {"O", "o"}, {"G", "g"}, {"L", "l"}, {"E",
        "e"}, {"."}, {"C", "c"}, {"O", "o"}, {"M", "m"}>>)>>, <<Chs(<<{"D", "d"}, {"O", "o"},
        {"C", "c"}, {"S", "s"}, {"."}, {"G", "g"}, {"O", "o"}, {"O", "o"}, {"G", "g"}, {"L",
        "l"}, {"E", "e"}, {"."}, {"C", "c"}, {"O", "o"}, {"M", "m"}>>)>>>>), Chs(<<{"/"}>>),
        Run(1, RepCap, (Alphabet \ {SPC}))>>],
      [groups |-> 0, nodes |->
        <<B, Alt(<<<<Chs(<<{"P", "p"}, {"L", "l"}, {"A", "a"}, {"Y", "y"}, {"."}, {"G", "g"},
        {"O", "o"}, {"O", "o"}, {"G", "g"}, {"L", "l"}, {"E", "e"}, {"."}, {"C", "c"}, {"O",
        "o"}, {"M", "m"}>>)>>, <<Chs(<<{"A", "a"}, {"P", "p"}, {"P", "p"}, {"S", "s"}, {"."},
        {"A", "a"}, {"P", "p"}, {"P", "p"}, {"L", "l"}, {"E", "e"}, {"."}, {"C", "c"}, {"O",
        "o"}, {"M", "m"}>>)>>>>), Chs(<<{"/"}>>), Run(1, RepCap, (Alphabet \ {SPC}))>>],
      [groups |-> 0, nodes |->
        <<B, Run(1, RepCap, (Lowercase \cup Uppercase \cup Digits \cup {"-"})),
        Alt(<<<<Chs(<<{"B", "b"}, {"A", "a"}, {"N", "n"}, {"K", "k"}>>)>>, <<Chs(<<{"S", "s"},
        {"E", "e"}, {"C", "c"}, {"U", "u"}, {"R", "r"}, {"E", "e"}>>)>>, <<Chs(<<{"V", "v"},
        {"E", "e"}, {"R", "r"}, {"I", "i"}, {"F", "f"}, {"Y", "y"}>>)>>, <<Chs(<<{"U", "u"},
        {"P", "p"}, {"D", "d"}, {"A", "a"}, {"T", "t"}, {"E", "e"}>>)>>, <<Chs(<<{"L", "l"},
        {"O", "o"}, {"G", "g"}, {"I", "i"}, {"N", "n"}>>)>>, <<Chs(<<{"A", "a"}, {"C", "c"},
        {"C", "c"}, {"O", "o"}, {"U", "u"}, {"N", "n"}, {"T", "t"}>>)>>, <<Chs(<<{"P", "p"},
        {"A", "a"}, {"Y", "y"}>>)>>, <<Chs(<<{"R", "r"}, {"E", "e"}, {"F", "f"}, {"U", "u"},
        {"N", "n"}, {"D", "d"}>>)>>, <<Chs(<<{"C", "c"}, {"L", "l"}, {"A", "a"}, {"I", "i"},
        {"M", "m"}>>)>>>>), Run(0, RepCap, (Lowercase \cup Uppercase \cup Digits \cup {"-"})),
        Chs(<<{"."}>>), Alt(<<<<Chs(<<{"C", "c"}, {"O", "o"}, {"M", "m"}>>)>>, <<Chs(<<{"I",
        "i"}, {"N", "n"}>>)>>, <<Chs(<<{"O", "o"}, {"R", "r"}, {"G", "g"}>>)>>, <<Chs(<<{"N",
        "n"}, {"E", "e"}, {"T", "t"}>>)>>, <<Chs(<<{"C", "c"}, {"O", "o"}, {"."}, {"I", "i"},
        {"N", "n"}>>)>>>>), Chs(<<{"/"}>>), Run(0, RepCap, (Alphabet \ {SPC}))>>]
   >>

\* IntelligenceStore.CASE_ID_PATTERNS (lines 221-244), matched with re.IGNORECASE
CASE_ID_PATTERNS ==
   <<
      [groups |-> 1, nodes |->
        <<Chs(<<{"C", "c"}>>), Alt(<<<<Chs(<<{"A", "a"}, {"S", "s"}, {"E", "e"}>>), Run(0,
        RepCap, {SPC}), Chs(<<{"I", "i"}, {"D", "d"}>>)>>, <<Chs(<<{"A", "a"}, {"S", "s"}, {"E",
        "e"}>>), Run(0, RepCap, {SPC}), Chs(<<{"N", "n"}, {"O", "o"}>>)>>, <<Chs(<<{"A", "a"},
        {"S", "s"}, {"E", "e"}>>), Run(0, RepCap, {SPC}), Chs(<<{"N", "n"}, {"U", "u"}, {"M",
        "m"}, {"B", "b"}, {"E", "e"}, {"R", "r"}>>)>>, <<Chs(<<{"O", "o"}, {"M", "m"}, {"P",
        "p"}, {"L", "l"}, {"A", "a"}, {"I", "i"}, {"N", "n"}, {"T", "t"}>>), Run(0, RepCap,
        {SPC}), Chs(<<{"I", "i"}, {"D", "d"}>>)>>, <<Chs(<<{"O", "o"}, {"M", "m"}, {"P", "p"},
        {"L", "l"}, {"A", "a"}, {"I", "i"}, {"N", "n"}, {"T", "t"}>>), Run(0, RepCap, {SPC}),
        Chs(<<{"N", "n"}, {"O", "o"}>>)>>, <<Chs(<<{"I", "i"}, {"D", "d"}>>)>>>>), Run(0,
        RepCap, {SPC, "#", "-", ".", ":"}), Open, Chs(<<(Lowercase \cup Uppercase \cup
        Digits)>>), Run(2, 20, (Lowercase \cup Uppercase \cup Digits \cup {"-", "/"})), Close,
        B>>],
      [groups |-> 1, nodes |->
        <<Chs(<<{"R", "r"}, {"E", "e"}, {"F", "f"}>>), Alt(<<<<Chs(<<{"E", "e"}, {"R", "r"},
        {"E", "e"}, {"N", "n"}, {"C", "c"}, {"E", "e"}>>), Run(0, RepCap, {SPC}),
        Alt(<<<<Chs(<<{"N", "n"}, {"O", "o"}>>)>>, <<Chs(<<{"N", "n"}, {"U", "u"}, {"M", "m"},
        {"B", "b"}, {"E", "e"}, {"R", "r"}>>)>>, <<Chs(<<{"I", "i"}, {"D", "d"}>>)>>>>)>>,
        <<Run(0, RepCap, {SPC}), Alt(<<<<Chs(<<{"N", "n"}, {"O", "o"}>>)>>, <<Chs(<<{"I", "i"},
        {"D", "d"}>>)>>, <<Chs(<<{"#"}>>)>>>>)>>>>), Run(0, RepCap, {SPC, "#", "-", ".", ":"}),
        Run(0, 1, {"#"}), Open, Chs(<<(Lowercase \cup Uppercase \cup Digits)>>), Run(2, 20,
        (Lowercase \cup Uppercase \cup Digits \cup {"-", "/"})), Close, B>>],
      [groups |-> 1, nodes |->
        <<Alt(<<<<Chs(<<{"T", "t"}, {"I", "i"}, {"C", "c"}, {"K", "k"}, {"E", "e"}, {"T",
        "t"}>>), Run(0, RepCap, {SPC}), Alt(<<<<Chs(<<{"N", "n"}, {"O", "o"}>>)>>, <<Chs(<<{"I",
        "i"}, {"D", "d"}>>)>>, <<Chs(<<{"N", "n"}, {"U", "u"}, {"M", "m"}, {"B", "b"}, {"E",
        "e"}, {"R", "r"}>>)>>>>)>>, <<Chs(<<{"F", "f"}, {"I", "i"}, {"R", "r"}>>), Run(0,
        RepCap, {SPC}), Alt(<<<<Chs(<<{"N", "n"}, {"O", "o"}>>)>>, <<Chs(<<{"N", "n"}, {"U",
        "u"}, {"M", "m"}, {"B", "b"}, {"E", "e"}, {"R", "r"}>>)>>, <<Chs(<<{"I", "i"}, {"D",
        "d"}>>)>>>>)>>>>), Run(0, RepCap, {SPC, "#", "-", ".", ":"}), Open, Chs(<<(Lowercase
        \cup Uppercase \cup Digits)>>), Run(2, 20, (Lowercase \cup Uppercase \cup Digits \cup
        {"-", "/"})), Close, B>>],
      [groups |-> 0, nodes |->
        <<B, Chs(<<{"C", "R", "T", "X", "c", "r", "t", "x"}, {"-"}>>), Run(3, 8, Digits), B>>],
      [groups |-> 0, nodes |->
        <<B, Chs(<<{"C", "c"}, {"I", "i"}, {"D", "d"}>>), Run(0, 1, {"-"}), Run(4, 12,
        (Lowercase \cup Uppercase \cup Digits)), B>>],
      [groups |-> 1, nodes |->
        <<B, Open, Chs(<<{"F", "f"}, {"R", "r"}, {"D", "d"}, {"-"}>>), Run(5, 20, (Lowercase
        \cup Uppercase \cup Digits \cup {"-"})), Close, B>>],
      [groups |-> 1, nodes |->
        <<B, Open, Chs(<<{"C", "c"}, {"B", "b"}, {"I", "i"}, {"-"}>>), Run(5, 25, (Lowercase
        \cup Uppercase \cup Digits \cup {"-"})), Close, B>>],
      [groups |-> 1, nodes |->
        <<B, Open, Chs(<<{"F", "f"}, {"I", "i"}, {"R", "r"}, {"-"}>>), Run(5, 25, (Lowercase
        \cup Uppercase \cup Digits \cup {"-"})), Close, B>>],
      [groups |-> 1, nodes |->
        <<B, Open, Chs(<<{"R", "r"}, {"E", "e"}, {"F", "f"}, {"U", "u"}, {"N", "n"}, {"D", "d"},
        {"-"}>>), Run(3, 15, (Lowercase \cup Uppercase \cup Digits \cup {"-"})), Close, B>>],
      [groups |-> 1, nodes |->
        <<B, Open, Chs(<<{"N", "n"}, {"C", "c"}, {"B", "b"}, {"-"}>>), Run(4, 20, (Lowercase
        \cup Uppercase \cup Digits \cup {"-"})), Close, B>>],
      [groups |-> 1, nodes |->
        <<B, Open, Chs(<<{"E", "e"}, {"D", "d"}, {"-"}>>), Run(4, 20, (Lowercase \cup Uppercase
        \cup Digits \cup {"-"})), Close, B>>],
      [groups |-> 1, nodes |->
        <<B, Open, Chs(<<{"C", "c"}, {"Y", "y"}, {"B", "b"}, {"E", "e"}, {"R", "r"}, {"-"}>>),
        Run(4, 20, (Lowercase \cup Uppercase \cup Digits \cup {"-"})), Close, B>>],
      [groups |-> 1, nodes |->
        <<B, Open, Chs(<<{"I", "i"}, {"T", "t"}, {"R", "r"}, {"-"}>>), Run(4, 15, (Lowercase
        \cup Uppercase \cup Digits \cup {"-"})), Close, B>>],
      [groups |-> 1, nodes |->
        <<B, Open, Chs(<<{"D", "d"}, {"R", "r"}, {"I", "i"}, {"-"}>>), Run(4, 20, (Lowercase
        \cup Uppercase \cup Digits \cup {"-"})), Close, B>>],
      [groups |-> 0, nodes |->
        <<B, Run(2, 5, (Lowercase \cup Uppercase)), Chs(<<{"-"}>>), Run(4, 4, Digits),
        Chs(<<{"-"}>>), Run(3, 15, (Lowercase \cup Uppercase \cup Digits \cup {"-"})), B>>],
      [groups |-> 1, nodes |->
        <<B, Open, Run(2, 10, (Lowercase \cup Uppercase)), Chs(<<{"-"}>>), Run(2, 12, (Lowercase
        \cup Uppercase \cup Digits)), Chs(<<{"-"}>>), Run(4, 25, (Lowercase \cup Uppercase \cup
        Digits \cup {"-"})), Close, B>>]
   >>

\* IntelligenceStore.POLICY_NUMBER_PATTERNS (lines 249-257), matched with re.IGNORECASE
POLICY_NUMBER_PATTERNS ==
   <<
      [groups |-> 1, nodes |->
        <<Alt(<<<<Chs(<<{"P", "p"}, {"O", "o"}, {"L", "l"}, {"I", "i"}, {"C", "c"}, {"Y",
        "y"}>>), Run(0, RepCap, {SPC}), Alt(<<<<Chs(<<{"N", "n"}, {"O", "o"}>>)>>, <<Chs(<<{"N",
        "n"}, {"U", "u"}, {"M", "m"}, {"B", "b"}, {"E", "e"}, {"R", "r"}>>)>>, <<Chs(<<{"I",
        "i"}, {"D", "d"}>>)>>, <<Chs(<<{"#"}>>)>>>>)>>, <<Chs(<<{"I", "i"}, {"N", "n"}, {"S",
        "s"}, {"U", "u"}, {"R", "r"}, {"A", "a"}, {"N", "n"}, {"C", "c"}, {"E", "e"}>>), Run(0,
        RepCap, {SPC}), Alt(<<<<Chs(<<{"I", "i"}, {"D", "d"}>>)>>, <<Chs(<<{"N", "n"}, {"O",
        "o"}>>)>>, <<Chs(<<{"N", "n"}, {"U", "u"}, {"M", "m"}, {"B", "b"}, {"E", "e"}, {"R",
        "r"}>>)>>, <<Chs(<<{"P", "p"}, {"O", "o"}, {"L", "l"}, {"I", "i"}, {"C", "c"}, {"Y",
        "y"}>>)>>>>)>>>>), Rep(0, 1, <<Run(0, RepCap, {SPC}), Alt(<<<<Chs(<<{"I", "i"}, {"S",
        "s"}>>)>>, <<Chs(<<{":"}>>)>>>>)>>), Run(0, RepCap, {SPC}), Run(0, RepCap, {SPC, "#",
        "-", ".", ":"}), Open, Run(0, 5, (Lowercase \cup Uppercase)), Run(0, 1, {"-"}), Run(3,
        20, (Lowercase \cup Uppercase \cup Digits \cup {"-"})), Close, B>>],
      [groups |-> 1, nodes |->
        <<Alt(<<<<Chs(<<{"L", "l"}, {"I", "i"}, {"C", "c"}>>), Run(0, RepCap, {SPC}),
        Alt(<<<<Chs(<<{"P", "p"}, {"O", "o"}, {"L", "l"}, {"I", "i"}, {"C", "c"}, {"Y",
        "y"}>>)>>, <<Chs(<<{"N", "n"}, {"O", "o"}>>)>>, <<Chs(<<{"N", "n"}, {"U", "u"}, {"M",
        "m"}, {"B", "b"}, {"E", "e"}, {"R", "r"}>>)>>>>)>>, <<Chs(<<{"P", "p"}, {"O", "o"},
        {"L", "l"}, {"I", "i"}, {"C", "c"}, {"Y", "y"}>>), Run(0, RepCap, {SPC}), Chs(<<{"C",
        "c"}, {"O", "o"}, {"D", "d"}, {"E", "e"}>>)>>>>), Rep(0, 1, <<Run(0, RepCap, {SPC}),
        Alt(<<<<Chs(<<{"I", "i"}, {"S", "s"}>>)>>, <<Chs(<<{":"}>>)>>>>)>>), Run(0, RepCap,
        {SPC}), Run(0, RepCap, {SPC, "#", "-", ".", ":"}), Open, Run(4, 18, (Lowercase \cup
        Uppercase \cup Digits \cup {"-"})), Close, B>>],
      [groups |-> 0, nodes |->
        <<B, Alt(<<<<Chs(<<{"P", "p"}>>)>>, <<Chs(<<{"I", "i"}, {"N", "n"}, {"S", "s"}>>)>>,
        <<Chs(<<{"P", "p"}, {"O", "o"}, {"L", "l"}>>)>>>>), Chs(<<{"-"}>>), Run(4, 20,
        (Lowercase \cup Uppercase \cup Digits \cup {"-"})), B>>],
      [groups |-> 0, nodes |->
        <<B, Alt(<<<<Chs(<<{"P", "p"}>>)>>, <<Chs(<<{"I", "i"}, {"N", "n"}, {"S", "s"}>>)>>,
        <<Chs(<<{"P", "p"}, {"O", "o"}, {"L", "l"}>>)>>>>), Run(0, 1, {"-"}), Run(4, 10,
        Digits), Not(<<Chs(<<{"-"}, Digits>>)>>), B>>],
      [groups |-> 0, nodes |->
        <<B, Chs(<<{"P", "p"}, {"O", "o"}, {"L", "l"}, {"I", "i"}, {"C", "c"}, {"Y", "y"}>>),
        Run(0, 1, {"-"}), Run(4, 12, (Lowercase \cup Uppercase \cup Digits)), B>>],
      [groups |-> 0, nodes |->
        <<B, Chs(<<{"L", "l"}, {"I", "i"}, {"C", "c"}, {"-"}>>), Run(2, 5, (Lowercase \cup
        Uppercase)), Chs(<<{"-"}>>), Run(4, 4, Digits), Chs(<<{"-"}>>), Run(4, 12, (Lowercase
        \cup Uppercase \cup Digits \cup {"-"})), B>>]
   >>

\* IntelligenceStore.ORDER_NUMBER_PATTERNS (lines 262-278), matched with re.IGNORECASE
ORDER_NUMBER_PATTERNS ==
   <<
      [groups |-> 1, nodes |->
        <<Chs(<<{"O", "o"}, {"R", "r"}, {"D", "d"}, {"E", "e"}, {"R", "r"}>>), Alt(<<<<Run(0,
        RepCap, {SPC}), Alt(<<<<Chs(<<{"I", "i"}, {"D", "d"}>>)>>, <<Chs(<<{"N", "n"}, {"O",
        "o"}>>)>>, <<Chs(<<{"N", "n"}, {"U", "u"}, {"M", "m"}, {"B", "b"}, {"E", "e"}, {"R",
        "r"}>>)>>, <<Chs(<<{"#"}>>)>>>>)>>, <<Run(0, RepCap, {SPC}), Chs(<<{"R", "r"}, {"E",
        "e"}, {"F", "f"}>>), Rep(0, 1, <<Chs(<<{"E", "e"}, {"R", "r"}, {"E", "e"}, {"N", "n"},
        {"C", "c"}, {"E", "e"}>>)>>)>>>>), Run(1, RepCap, {SPC, "#", "-", ".", ":"}), Open,
        Run(0, 4, (Lowercase \cup Uppercase)), Run(0, 1, {"-"}), Run(4, 16, Digits), Close, B>>],
      [groups |-> 1, nodes |->
        <<Chs(<<{"T", "t"}>>), Alt(<<<<Chs(<<{"X", "x"}, {"N", "n"}>>), Run(0, RepCap, {SPC}),
        Alt(<<<<Chs(<<{"R", "r"}, {"E", "e"}, {"F", "f"}>>)>>, <<Chs(<<{"I", "i"}, {"D",
        "d"}>>)>>, <<Chs(<<{"N", "n"}, {"O", "o"}>>)>>>>), B>>, <<Chs(<<{"R", "r"}, {"A", "a"},
        {"N", "n"}, {"S", "s"}, {"A", "a"}, {"C", "c"}, {"T", "t"}, {"I", "i"}, {"O", "o"},
        {"N", "n"}>>), Run(0, RepCap, {SPC}), Alt(<<<<Chs(<<{"I", "i"}, {"D", "d"}>>)>>,
        <<Chs(<<{"N", "n"}, {"O", "o"}>>)>>, <<Chs(<<{"N", "n"}, {"U", "u"}, {"M", "m"}, {"B",
        "b"}, {"E", "e"}, {"R", "r"}>>)>>>>), B>>>>), Run(1, RepCap, {SPC, "#", "-", ".", ":"}),
        Open, Run(0, 3, (Lowercase \cup Uppercase)), Run(0, 1, {"-"}), Run(4, 16, (Lowercase
        \cup Uppercase \cup Digits)), Close, B>>],
      [groups |-> 0, nodes |->
        <<B, Alt(<<<<Chs(<<{"O", "o"}, {"R", "r"}, {"D", "d"}>>)>>, <<Chs(<<{"T", "t"}, {"R",
        "r"}, {"N", "n"}>>)>>>>), Run(0, 1, {"-"}), Run(3, 12, (Lowercase \cup Uppercase \cup
        Digits)), B>>],
      [groups |-> 0, nodes |->
        <<B, Chs(<<{"T", "t"}, {"X", "x"}>>), Run(0, 1, {"N", "n"}), Run(0, 1, {"-"}), Run(3,
        12, Digits), B>>],
      [groups |-> 1, nodes |->
        <<Alt(<<<<Chs(<<{"S", "s"}, {"H", "h"}, {"I", "i"}, {"P", "p"}, {"M", "m"}, {"E", "e"},
        {"N", "n"}, {"T", "t"}>>), Run(0, RepCap, {SPC}), Chs(<<{"I", "i"}, {"D", "d"}>>)>>,
        <<Chs(<<{"P", "p"}, {"A", "a"}, {"R", "r"}, {"C", "c"}, {"E", "e"}, {"L", "l"}>>),
        Run(0, RepCap, {SPC}), Chs(<<{"I", "i"}, {"D", "d"}>>)>>, <<Chs(<<{"C", "c"}, {"O",
        "o"}, {"U", "u"}, {"R", "r"}, {"I", "i"}, {"E", "e"}, {"R", "r"}>>), Run(0, RepCap,
        {SPC}), Alt(<<<<Chs(<<{"I", "i"}, {"D", "d"}>>)>>, <<Chs(<<{"R", "r"}, {"E", "e"}, {"F",
        "f"}>>)>>>>)>>>>), Run(1, RepCap, {SPC, "#", "-", ".", ":"}), Open, Run(4, 18,
        (Lowercase \cup Uppercase \cup Digits \cup {"-"})), Close, B>>],
      [groups |-> 1, nodes |->
        <<B, Open, Chs(<<{"O", "o"}, {"R", "r"}, {"D", "d"}, {"-"}>>), Run(2, 4, (Lowercase \cup
        Uppercase)), Chs(<<{"-"}>>), Run(4, 20, (Lowercase \cup Uppercase \cup Digits \cup
        {"-"})), Close, B>>],
      [groups |-> 1, nodes |->
        <<B, Open, Chs(<<{"A", "a"}, {"M", "m"}, {"Z", "z"}, {"-"}>>), Run(6, 20, (Lowercase
        \cup Uppercase \cup Digits \cup {"-"})), Close, B>>],
      [groups |-> 1, nodes |->
        <<B, Open, Chs(<<{"F", "f"}, {"L", "l"}, {"K", "k"}, {"-"}>>), Run(6, 20, (Lowercase
        \cup Uppercase \cup Digits \cup {"-"})), Close, B>>],
      [groups |-> 1, nodes |->
        <<B, Open, Chs(<<{"S", "s"}, {"H", "h"}, {"I", "i"}, {"P", "p"}, {"-"}>>), Run(4, 15,
        (Lowercase \cup Uppercase \cup Digits \cup {"-"})), Close, B>>],
      [groups |-> 1, nodes |->
        <<Chs(<<{"O", "o"}, {"R", "r"}, {"D", "d"}, {"E", "e"}, {"R", "r"}>>), Run(1, RepCap,
        {SPC}), Open, Run(8, 25, (Lowercase \cup Uppercase \cup Digits \cup {"-"})), Close, B>>],
      [groups |-> 1, nodes |->
        <<B, Open, Run(2, 5, (Lowercase \cup Uppercase)), Chs(<<{"-"}>>), Run(2, 5, (Lowercase
        \cup Uppercase)), Chs(<<{"-"}>>), Run(4, 4, Digits), Chs(<<{"-"}>>), Run(4, 12, Digits),
        Close, B>>]
   >>

NoGroup == [s |-> 0, e |-> 0]
NoMatch == [ok |-> FALSE, end |-> 0, cap |-> NoGroup]

\* \w
IsWord(text, pos) ==
    pos >= 1 /\ pos <= Len(text) /\ text[pos] \in (Lowercase \cup Uppercase \cup Digits \cup {"_"})

\* the characters from pos on that are in the class s, at most hi of them
RunLength(text, pos, s, hi) ==
    LET most == IF hi < Len(text) - pos + 1 THEN hi ELSE Len(text) - pos + 1 IN
    Cardinality({k \in 1..most : \A j \in 0..(k - 1) : text[pos + j] \in s})

\* the match of the nodes at position pos, the first in the matcher's order
RECURSIVE Match(_, _, _, _)
RECURSIVE MatchRun(_, _, _, _, _, _)
MatchRun(rest, text, pos, cap, k, lo) ==
    IF k < lo THEN NoMatch
    ELSE LET r == Match(rest, text, pos + k, cap) IN
         IF r.ok THEN r ELSE MatchRun(rest, text, pos, cap, k - 1, lo)

Match(nodes, text, pos, cap) ==
    IF Len(nodes) = 0 THEN [ok |-> TRUE, end |-> pos, cap |-> cap]
    ELSE LET n == Head(nodes)
             rest == Tail(nodes)
         IN CASE n.t = "chs" ->
                   IF /\ pos + Len(n.sets) - 1 <= Len(text)
                      /\ \A i \in 1..Len(n.sets) : text[pos + i - 1] \in n.sets[i]
                   THEN Match(rest, text, pos + Len(n.sets), cap) ELSE NoMatch
              [] n.t = "run" ->
                   MatchRun(rest, text, pos, cap, RunLength(text, pos, n.s, n.hi), n.lo)
              [] n.t = "b" ->
                   IF IsWord(text, pos - 1) # IsWord(text, pos)
                   THEN Match(rest, text, pos, cap) ELSE NoMatch
              [] n.t = "open" -> Match(rest, text, pos, [cap EXCEPT !.s = pos])
              [] n.t = "close" -> Match(rest, text, pos, [cap EXCEPT !.e = pos])
              [] n.t = "not" ->
                   IF Match(n.sub, text, pos, cap).ok THEN NoMatch
                   ELSE Match(rest, text, pos, cap)
              [] n.t = "alt" ->
                   LET tried == [i \in 1..Len(n.subs) |->
                                    Match(n.subs[i] \o rest, text, pos, cap)]
                       hits == {i \in 1..Len(n.subs) : tried[i].ok}
                   IN IF hits = {} THEN NoMatch
                      ELSE tried[CHOOSE i \in hits : \A j \in hits : i <= j]
              [] n.t = "rep" ->
                   LET more == IF n.hi = 0 THEN NoMatch
                               ELSE Match(n.sub \o <<Rep(IF n.lo = 0 THEN 0 ELSE n.lo - 1,
                                                         n.hi - 1, n.sub)>> \o rest,
                                          text, pos, cap)
                   IN IF more.ok THEN more
                      ELSE IF n.lo = 0 THEN Match(rest, text, pos, cap) ELSE NoMatch

\* re.finditer: the matches from left to right, none overlapping another
RECURSIVE FindFrom(_, _, _)
FindFrom(at, text, start) ==
    LET hits == {s \in start..(Len(text) + 1) : at[s].ok} IN
    IF hits = {} THEN << >>
    ELSE LET s == CHOOSE x \in hits : \A y \in hits : x <= y
             m == at[s]
         IN <<[s |-> s, e |-> m.end, cap |-> m.cap]>> \o
            FindFrom(at, text, IF m.end > s THEN m.end ELSE s + 1)

FindIter(nodes, text) ==
    FindFrom([s \in 1..(Len(text) + 1) |-> Match(nodes, text, s, NoGroup)], text, 1)

\* text[s:e], positions counted from 1, e excluded
Slice(text, s, e) == SubSeq(text, s, e - 1)

\* match_obj.group(0) and match_obj.groups()[0] ("" when the group took no part)
Group0(text, m) == Slice(text, m.s, m.e)
Group1(text, m) == IF m.cap.e > m.cap.s THEN Slice(text, m.cap.s, m.cap.e) ELSE << >>

\* re.findall: group 1 of a pattern with one group, else the whole match
FindAll(pattern, text) ==
    LET ms == FindIter(pattern.nodes, text) IN
    [i \in 1..Len(ms) |-> IF pattern.groups = 1 THEN Group1(text, ms[i])
                          ELSE Group0(text, ms[i])]

\* str.strip()
Strip(s) ==
    LET solid == {i \in 1..Len(s) : s[i] # SPC} IN
    IF solid = {} THEN << >>
    ELSE SubSeq(s, CHOOSE i \in solid : \A j \in solid : i <= j,
                   CHOOSE i \in solid : \A j \in solid : i >= j)

\* re.sub(r'[...]', '', s): the characters of a class removed
Without(s, chars) ==
    LET Kept(c) == c \notin chars IN SelectSeq(s, Kept)

StartsWith(s, prefix) == Len(s) >= Len(prefix) /\ SubSeq(s, 1, Len(prefix)) = prefix
\* str.lower() and str.upper(), character by character
LowerSeq ==
    <<"a", "b", "c", "d", "e", "f", "g", "h", "i", "j", "k", "l", "m", "n", "o", "p", "q", "r",
      "s", "t", "u", "v", "w", "x", "y", "z">>
UpperSeq ==
    <<"A", "B", "C", "D", "E", "F", "G", "H", "I", "J", "K", "L", "M", "N", "O", "P", "Q", "R",
      "S", "T", "U", "V", "W", "X", "Y", "Z">>
LowerChar(c) ==
    IF c \in Uppercase THEN LowerSeq[CHOOSE i \in 1..26 : UpperSeq[i] = c] ELSE c
UpperChar(c) ==
    IF c \in Lowercase THEN UpperSeq[CHOOSE i \in 1..26 : LowerSeq[i] = c] ELSE c
ToLower(s) == [i \in 1..Len(s) |-> LowerChar(s[i])]
ToUpper(s) == [i \in 1..Len(s) |-> UpperChar(s[i])]

\* the order of the characters by code point, which sorted() follows
CodeOrder ==
    <<SPC, "#", "(", ")", "+", ",", "-", ".", "/">> \o
    <<"0", "1", "2", "3", "4", "5", "6", "7", "8", "9", ":", "@">> \o UpperSeq \o <<"_">> \o
    LowerSeq
Ord(c) == CHOOSE i \in 1..Len(CodeOrder) : CodeOrder[i] = c

\* a < b for two strings, as Python compares them
StrLess(a, b) ==
    \/ Len(a) < Len(b) /\ SubSeq(b, 1, Len(a)) = a
    \/ \E i \in 1..Len(a) :
          /\ i <= Len(b)
          /\ SubSeq(a, 1, i - 1) = SubSeq(b, 1, i - 1)
          /\ Ord(a[i]) < Ord(b[i])

\* sorted(a set of strings)
RECURSIVE Sorted(_)
Sorted(set) ==
    IF set = {} THEN << >>
    ELSE LET least == CHOOSE a \in set : \A b \in set \ {a} : StrLess(a, b)
         IN <<least>> \o Sorted(set \ {least})

\* s.rsplit('@', 1) and s.split('@')[1] where s holds an '@'
LastAt(s) == CHOOSE i \in 1..Len(s) : s[i] = "@" /\ \A j \in (i + 1)..Len(s) : s[j] # "@"
AfterLast(s) == SubSeq(s, LastAt(s) + 1, Len(s))
BeforeLast(s) == SubSeq(s, 1, LastAt(s) - 1)
\* s.split(sep)[n]: the n-th piece of s between separators, n from 0
Piece(s, sep, n) ==
    LET cuts == {i \in 1..Len(s) : s[i] = sep}
        Bound(k) == IF k = 0 THEN 0
                    ELSE IF k > Cardinality(cuts) THEN Len(s) + 1
                    ELSE CHOOSE i \in cuts : Cardinality({j \in cuts : j < i}) = k - 1
    IN SubSeq(s, Bound(n) + 1, Bound(n + 1) - 1)

\* text.find(sub), positions counted from 1, 0 when absent
Find(text, sub) ==
    LET at == {i \in 1..(Len(text) - Len(sub) + 1) : SubSeq(text, i, i + Len(sub) - 1) = sub}
    IN IF at = {} THEN 0 ELSE CHOOSE i \in at : \A j \in at : i <= j

\* re.sub(r'[...]+$', '', s): the trailing characters of a class removed
RStrip(s, chars) ==
    LET solid == {i \in 1..Len(s) : s[i] \notin chars} IN
    IF solid = {} THEN << >> ELSE SubSeq(s, 1, CHOOSE i \in solid : \A j \in solid : i >= j)

\* the values re.findall gives for the patterns of a list, as a set
FoundBy(patterns, text) ==
    UNION {LET found == FindAll(patterns[i], text) IN {found[j] : j \in 1..Len(found)}
           : i \in 1..Len(patterns)}

\* ------------------------------------------------------------------------
\* IntelligenceStore (src/extractor.py)
\* ------------------------------------------------------------------------
\* line 386: re.sub(r'[\s\-+()wa\.me/]', '', raw)
PhoneJunk == {SPC, "-", "+", "(", ")", "w", "a", ".", "m", "e", "/"}

\* lines 389-392: the country code or the leading 0 stripped
StripCountryCode(cleaned) ==
    IF StartsWith(cleaned, <<"9", "1">>) /\ Len(cleaned) = 12 THEN SubSeq(cleaned, 3, 12)
    ELSE IF StartsWith(cleaned, <<"0">>) /\ Len(cleaned) = 11 THEN SubSeq(cleaned, 2, 11)
    ELSE cleaned

\* the mutant stores the digits as they were written
CanonicalPhoneAsWritten(raw) ==
    LET cleaned == Without(raw, PhoneJunk) IN
    IF Len(StripCountryCode(cleaned)) = 10 THEN {cleaned} ELSE {}

\* lines 386-401: what one match adds to phoneNumbers
CanonicalPhone(raw) ==
    LET cleaned == StripCountryCode(Without(raw, PhoneJunk)) IN
    (IF Len(cleaned) = 10 /\ cleaned[1] \in {"6", "7", "8", "9"}
     THEN {<<"+", "9", "1">> \o cleaned} ELSE {})
    \cup
    (IF StartsWith(cleaned, <<"1", "8", "0", "0">>) \/ StartsWith(cleaned, <<"1", "8", "6", "0">>)
     THEN {cleaned} ELSE {})

\* _extract_phones, lines 370-401
ExtractPhones(text) ==
    LET Raw(p, m) == LET g == Group1(text, m) IN
                     IF p.groups = 1 /\ Len(g) > 0 THEN Strip(g) ELSE Strip(Group0(text, m))
        Found(p) == LET ms == FindIter(p.nodes, text) IN
                    UNION {CanonicalPhone(Raw(p, ms[i])) : i \in 1..Len(ms)}
    IN UNION {Found(PHONE_PATTERNS[i]) : i \in 1..Len(PHONE_PATTERNS)}
\* CanonicalNormalizer.normalize_bank_account, lines 76-79
NormalizeBankAccount(account) == Without(account, {SPC, "-"})

\* _extract_bank_accounts, lines 403-436
ExtractBankAccounts(text) ==
    LET Skipped(m) == \/ Len(m) < 9 \/ Len(m) > 18
                      \/ Len(m) = 10 /\ m[1] \in {"6", "7", "8", "9"}
                      \/ Len(m) = 4 /\ StartsWith(m, <<"2", "0">>)
        bare == {m \in FoundBy(BANK_ACCOUNT_PATTERN, text) : ~Skipped(m)}
        near == {m \in FoundBy(CONTEXTUAL_BANK_PATTERNS, text) : Len(m) >= 6 /\ Len(m) <= 18}
    IN {NormalizeBankAccount(m) : m \in bare \cup near}

\* lines 447-456 and 465-478: the handle names a payment provider, not a mailbox
IsUpiHandle(match) ==
    LET domain_lower == ToLower(AfterLast(match))
        is_known_provider == domain_lower \in UPI_PROVIDERS
        is_short_handle == "." \notin {domain_lower[i] : i \in 1..Len(domain_lower)}
                           /\ Len(domain_lower) <= 15
        is_email_domain == \E ed \in EMAIL_DOMAINS : StartsWith(domain_lower, ed)
    IN /\ is_known_provider \/ is_short_handle
       /\ Len(BeforeLast(match)) >= 2
       /\ ~is_email_domain

\* lines 469-474: the handle found near a keyword is the head of an email address
HeadOfEmail(text, match) ==
    LET idx == Find(ToLower(text), ToLower(match))
        after == SubSeq(text, idx + Len(match), Len(text))
    IN /\ idx >= 1
       /\ Len(after) > 1
       /\ after[1] \in {".", "-"}
       /\ after[2] \in (Lowercase \cup Uppercase)

\* _extract_upi_ids, lines 438-479
ExtractUpiIds(text) ==
    LET plain == {m \in FoundBy(UPI_PATTERN, text) : IsUpiHandle(m)}
        near == {m \in FoundBy(CONTEXTUAL_UPI_PATTERNS, text) :
                    /\ "@" \in {m[i] : i \in 1..Len(m)}
                    /\ Len(m) >= 5
                    /\ ~HeadOfEmail(text, m)
                    /\ IsUpiHandle(m)}
    IN {ToLower(m) : m \in plain \cup near}

\* _extract_emails, lines 481-497
ExtractEmails(text) ==
    LET Kept(m) == LET domain == ToLower(Piece(m, "@", 1))
                       dotted == "." \in {domain[i] : i \in 1..Len(domain)}
                       domain_base == IF dotted THEN Piece(domain, ".", 0) ELSE domain
                   IN domain_base \notin UPI_PROVIDERS /\ dotted
    IN {ToLower(m) : m \in {f \in FoundBy(EMAIL_PATTERN, text) : Kept(f)}}

\* _extract_urls, lines 499-508
ExtractUrls(text) ==
    LET Cleaned(m) == RStrip(m, {".", ",", ":", ")"}) IN
    {c \in {Cleaned(m) : m \in FoundBy(URL_PATTERNS, text)} : Len(c) > 5}

\* line 513
POLICY_PREFIXES ==
    {<<"P", "O", "L", "-">>, <<"I", "N", "S", "-">>, <<"P", "O", "L", "I", "C", "Y", "-">>,
     <<"P", "-">>, <<"L", "I", "C", "-">>}

\* lines 516-518, 528-531 and 537-540: the identifiers of at least 3
\* characters, stripped and in upper case
UpperIds(found) == {ToUpper(r) : r \in {s \in {Strip(m) : m \in found} : Len(s) >= 3}}

\* _extract_case_ids, lines 510-522
ExtractCaseIds(text) ==
    {u \in UpperIds(FoundBy(CASE_ID_PATTERNS, text)) :
        ~\E pfx \in POLICY_PREFIXES : StartsWith(u, pfx)}

\* _extract_policy_numbers, lines 524-531
ExtractPolicyNumbers(text) == UpperIds(FoundBy(POLICY_NUMBER_PATTERNS, text))

\* _extract_order_numbers, lines 533-540
ExtractOrderNumbers(text) == UpperIds(FoundBy(ORDER_NUMBER_PATTERNS, text))

\* the eight keys of a session's intelligence, lines 546-555
StoreKeys ==
    {"phoneNumbers", "bankAccounts", "upiIds", "phishingLinks", "emailAddresses", "caseIds",
     "policyNumbers", "orderNumbers"}

\* lines 335-342: what the eight extractors find in a text
ExtractAll(text) ==
    [phoneNumbers |-> ExtractPhones(text), bankAccounts |-> ExtractBankAccounts(text),
     upiIds |-> ExtractUpiIds(text), emailAddresses |-> ExtractEmails(text),
     phishingLinks |-> ExtractUrls(text), caseIds |-> ExtractCaseIds(text),
     policyNumbers |-> ExtractPolicyNumbers(text), orderNumbers |-> ExtractOrderNumbers(text)]
\* ------------------------------------------------------------------------
\* The messages of SpecIntel: mobile numbers in the ways a sender may write
\* them, blank texts, and a message for each other kind of identifier
\* ------------------------------------------------------------------------
MaxExtracts == 3       \* calls of extract in a run

IntelSessions == {"s1", "s2"}
MobileNumbers ==
    {<<"9", "8", "7", "6", "5", "4", "3", "2", "1", "0">>,
     <<"9", "1", "9", "8", "7", "6", "5", "4", "3", "2">>}

\* bare, +91 joined, +91 with a space or a dash, in two groups of five
\* digits, and with a leading 0
WrittenForms(n) ==
    LET first == SubSeq(n, 1, 5)
        last == SubSeq(n, 6, 10)
    IN {n,
        <<"+", "9", "1">> \o n,
        <<"+", "9", "1", SPC>> \o n,
        <<"+", "9", "1", "-">> \o n,
        <<"+", "9", "1", SPC>> \o first \o <<SPC>> \o last,
        <<"+", "9", "1", "-">> \o first \o <<"-">> \o last,
        <<"0">> \o n,
        <<"0">> \o first \o <<"-">> \o last}
PhoneTexts == UNION {WrittenForms(n) : n \in MobileNumbers}
BlankTexts == {<< >>, <<SPC>>, <<SPC, SPC>>}
OtherTexts ==
    {<<"p", "a", "y", SPC, "t", "o", SPC, "s", "c", "a", "m", "@", "p", "a", "y", "t", "m">>,
     <<"a", "/", "c", SPC, "n", "o", ":", SPC, "4", "5", "6", "7", "8", "9", "0", "1", "2", "3">>,
     <<"h", "t", "t", "p", ":", "/", "/", "b", "a", "d", ".", "x", "y", "z", "/", "i", "n", ".">>,
     <<"m", "a", "i", "l", SPC, "H", "e", "l", "p", "@", "g", "m", "a", "i", "l", ".", "c", "o", "m">>,
     <<"c", "a", "s", "e", SPC, "i", "d", ":", SPC, "C", "B", "I", "-", "2", "0", "2", "5", "-", "7">>,
     <<"p", "o", "l", "i", "c", "y", SPC, "n", "o", SPC, "P", "O", "L", "-", "9", "8", "7", "6">>,
     <<"o", "r", "d", "e", "r", SPC, "i", "d", ":", SPC, "A", "M", "Z", "-", "7", "8", "9", "4", "5", "6">>}
IntelTexts == PhoneTexts \cup BlankTexts \cup OtherTexts

\* what the extractors find in each message of the model
Extracted == [text \in IntelTexts |-> ExtractAll(text)]

\* _ensure_session, lines 542-556
EnsureIntel(st, sid) ==
    IF sid \in DOMAIN st THEN st
    ELSE [s \in DOMAIN st \cup {sid} |->
            IF s = sid THEN [k \in StoreKeys |-> {}] ELSE st[s]]

\* get_intelligence, lines 346-358: the dict returned for a session
IntelView(data) == [k \in StoreKeys |-> Sorted(data[k])]

\* the extractors replacing what the session held: not the code
MergeReplacing(data, found) == found

\* lines 335-342: every extractor adds what it finds to the session's sets
Merge(data, found) == [k \in StoreKeys |-> data[k] \cup found[k]]

\* line 330: not text or not text.strip()
IsBlankText(text) == Strip(text) = << >>

\* extract, lines 323-344
ExtractInto(st, text, sid) ==
    IF IsBlankText(text) THEN EnsureIntel(st, sid)
    ELSE [EnsureIntel(st, sid) EXCEPT ![sid] = Merge(@, Extracted[text])]

NoIntelCall == [fn |-> None, sid |-> None, text |-> << >>, result |-> << >>, calls |-> 0]

\* intelligence_store.extract(text, session_id)
IntelExtract ==
    /\ pure.calls < MaxExtracts
    /\ \E sid \in IntelSessions, text \in IntelTexts :
          /\ store' = ExtractInto(store, text, sid)
          /\ pure' = [fn |-> "extract", sid |-> sid, text |-> text,
                      result |-> IntelView(store'[sid]), calls |-> pure.calls + 1]
    /\ UNCHANGED <<storeVars, thr, callbackVars, profiles, quality, req, loop, contexts, used_templates, detector>>

\* intelligence_store.get_intelligence(session_id)
IntelGetIntelligence ==
    /\ \E sid \in IntelSessions :
          /\ store' = EnsureIntel(store, sid)
          /\ pure' = [pure EXCEPT !.fn = "get_intelligence", !.sid = sid, !.text = << >>,
                                  !.result = IntelView(store'[sid])]
    /\ UNCHANGED <<storeVars, thr, callbackVars, profiles, quality, req, loop, contexts, used_templates, detector>>

InitIntel ==
    /\ StoreInit
    /\ thr = [t \in Threads |-> IdleThread]
    /\ CallbackIdle
    /\ RiskIdle
    /\ HandlerIdle
    /\ pure = NoIntelCall

NextIntel == IntelExtract \/ IntelGetIntelligence

SpecIntel == InitIntel /\ [][NextIntel]_vars

\* ------------------------------------------------------------------------
\* Claims about the intelligence store, checked on SpecIntel
\* ------------------------------------------------------------------------
Canonical(n) == <<"+", "9", "1">> \o n
EndsWith(s, suffix) ==
    Len(s) >= Len(suffix) /\ SubSeq(s, Len(s) - Len(suffix) + 1, Len(s)) = suffix
PhonesBefore(sid) == IF sid \in DOMAIN store THEN store[sid].phoneNumbers ELSE {}

ViewBefore(sid) == IntelView(EnsureIntel(store, sid)[sid])
Ascending(list) == \A i \in 1..(Len(list) - 1) : StrLess(list[i], list[i + 1])
Elements(list) == {list[i] : i \in 1..Len(list)}

\* C22: every call of extract or get_intelligence leaves each of the eight
\* sets of every session a superset of what it was; the view it returns is
\* a superset of the view before the call, holds the session's sets in
\* ascending order without duplicates; and a call of extract with an empty
\* or whitespace-only text returns the view as it was.
C22_SetsGrow ==
    [][/\ \A s \in DOMAIN store :
             s \in DOMAIN store' /\ \A k \in StoreKeys : store[s][k] \subseteq store'[s][k]
       /\ pure'.fn \in {"extract", "get_intelligence"}
          => /\ DOMAIN pure'.result = StoreKeys
             /\ \A k \in StoreKeys :
                   /\ Elements(ViewBefore(pure'.sid)[k]) \subseteq Elements(pure'.result[k])
                   /\ Elements(pure'.result[k]) = store'[pure'.sid][k]
                   /\ Ascending(pure'.result[k])
       /\ (pure'.calls = pure.calls + 1 /\ IsBlankText(pure'.text))
          => /\ pure'.result = ViewBefore(pure'.sid)
             /\ \A s \in DOMAIN store : store'[s] = store[s]]_vars

\* a blank text extracted into a session that holds two numbers and an
\* account: the view is returned as it was, in order
C22_Witness ==
    /\ pure.calls = 3
    /\ pure.fn = "extract"
    /\ pure.text = <<SPC>>
    /\ Len(pure.result.phoneNumbers) = 2
    /\ Len(pure.result.bankAccounts) = 1
    /\ StrLess(pure.result.phoneNumbers[1], pure.result.phoneNumbers[2])

\* ------------------------------------------------------------------------
\* Claims about the reaping of sessions
\* ------------------------------------------------------------------------
\* the request r starts its turn (lines 124-127 of main.py) and its
\* ensure_session creates the session dict: the id is new, or the dict the
\* id had was reaped by the cleanup of this very call
TurnCreatesSession(r) ==
    /\ req[r].pc = "turn"
    /\ req'[r].pc = "check"
    /\ req[r].sid \notin DOMAIN sessions \/ sessions'[req[r].sid].inc # sessions[req[r].sid].inc

\* C23: whenever a turn creates the session dict of its session id, because
\* the id is new or because the store has just reaped the dict the id had,
\* the turn starts from a RiskProfile with score 0, no signal and no message
\* counted, and from QualityMetrics with zero counters: nothing the reaped
\* session had scored or counted is left.
C23_ReapedTogether ==
    [][\A r \in ReqIds :
          TurnCreatesSession(r)
          => /\ GetProfile(profiles, req[r].sid) = NewProfile
             /\ GetQuality(quality, req[r].sid) = NewQuality]_vars

\* ------------------------------------------------------------------------
\* SpecCleanup: the session store (app/memory.py) called while the clock
\* advances by a second, by just under the cleanup interval or by most of a
\* session's lifetime
\* ------------------------------------------------------------------------
MaxClockTicks == 5      \* advances of the clock in a run
ClockSteps == {1, 599, 3000}
NoStoreCall == [fn |-> None, sid |-> None, ticks |-> 0]

CleanupTick ==
    /\ pure.ticks < MaxClockTicks
    /\ \E d \in ClockSteps : now' = now + d
    /\ pure' = [pure EXCEPT !.fn = "tick", !.sid = None, !.ticks = @ + 1]
    /\ UNCHANGED <<sessions, next_inc, last_cleanup, lock, hist, thr>>
    /\ UNCHANGED <<callbackVars, profiles, handlerVars>>

\* ensure_session, lines 33-50, the lock taken and released within the step
CleanupEnsure ==
    /\ \E sid \in SessionIds, v \in VarianceSamples :
          /\ EnsureEnabled(St, sid, now)
          /\ LET st1 == EnsureSession(St, sid, now, v) IN
                SetStore(st1) /\ hist' = HistAfter(st1)
          /\ pure' = [pure EXCEPT !.fn = "ensure_session", !.sid = sid]
    /\ UNCHANGED <<now, lock, thr, callbackVars, profiles, handlerVars>>

\* mark_finalized, lines 126-140: it does not call ensure_session
CleanupMarkFinalized ==
    /\ \E sid \in SessionIds :
          /\ LET st1 == IF MarkFinalizedResult(St, sid) THEN MarkFinalizedSet(St, sid) ELSE St
             IN SetStore(st1) /\ hist' = HistAfter(st1)
          /\ pure' = [pure EXCEPT !.fn = "mark_finalized", !.sid = sid]
    /\ UNCHANGED <<now, lock, thr, callbackVars, profiles, handlerVars>>

\* cleanup_session, lines 194-197: one session removed by hand
CleanupByHand ==
    /\ \E sid \in SessionIds :
          /\ LET st1 == CleanupSession(St, sid) IN
                SetStore(st1) /\ hist' = HistAfter(st1)
          /\ pure' = [pure EXCEPT !.fn = "cleanup_session", !.sid = sid]
    /\ UNCHANGED <<now, lock, thr, callbackVars, profiles, handlerVars>>

InitCleanup ==
    /\ StoreInit
    /\ thr = [t \in Threads |-> IdleThread]
    /\ CallbackIdle
    /\ RiskIdle
    /\ HandlerIdle
    /\ pure = NoStoreCall

NextCleanup == CleanupTick \/ CleanupEnsure \/ CleanupMarkFinalized \/ CleanupByHand

SpecCleanup == InitCleanup /\ [][NextCleanup]_vars

\* the periodic cleanup ran in the step
CleanupRan == last_cleanup' # last_cleanup
\* the session dicts the step removed from the store
Removed ==
    {s \in DOMAIN sessions : s \notin DOMAIN sessions' \/ sessions'[s].inc # sessions[s].inc}

ScammerCount(d) == Cardinality({i \in 1..Len(d.messages) : d.messages[i] = "scammer"})

\* C25: whenever no thread is inside an operation of the store, the
\* turn_count of every stored session equals the number of its messages
\* sent by the scammer, however the calls of add_message interleaved.
C25_TurnCount ==
    (\A t \in Threads : thr[t].pc = "idle")
    => \A sid \in DOMAIN sessions : sessions[sid].turn_count = ScammerCount(sessions[sid])

\* ------------------------------------------------------------------------
\* SpecThresholds: thresholds_met and get_missing_thresholds
\* (src/conversation_quality.py) called on a session whose counters are
\* anywhere around their minimums
\* ------------------------------------------------------------------------
MaxMetric == 9       \* largest value of a counter of QualityMetrics
MaxRedFlags == 6     \* most red flags a session has identified
ThresholdSession == "s1"
RedFlagNames ==
    <<"urgency", "otp_request", "suspension", "payment_request", "fees", "legal_threat",
      "emotional_pressure", "courier">>
MetricsInputs ==
    [turn_count : 0..MaxMetric, questions_asked : 0..MaxMetric,
     investigative_questions : 0..MaxMetric,
     red_flags_identified : {{RedFlagNames[i] : i \in 1..n} : n \in 0..MaxRedFlags},
     elicitation_attempts : 0..MaxMetric]

\* get_missing_thresholds, lines 314-330: the dict it returns
GetMissingThresholds(m) ==
    [k \in MissingThresholds(m) |->
        CASE k = "turns" -> MIN_TURN_COUNT - m.turn_count
          [] k = "questions" -> MIN_QUESTIONS_ASKED - m.questions_asked
          [] k = "investigative" -> MIN_INVESTIGATIVE_QUESTIONS - m.investigative_questions
          [] k = "red_flags" -> MIN_RED_FLAGS - Cardinality(m.red_flags_identified)
          [] k = "elicitation" -> MIN_ELICITATION_ATTEMPTS - m.elicitation_attempts]

NoThresholdsCall == [fn |-> None, sid |-> None, met |-> FALSE, missing |-> << >>]

InitThresholds ==
    /\ StoreInit
    /\ thr = [t \in Threads |-> IdleThread]
    /\ CallbackIdle
    /\ RiskIdle
    /\ req = [r \in ReqIds |-> IdleReq]
    /\ loop = None
    /\ contexts = << >>
    /\ store = << >>
    /\ detector = NewDetector
    /\ used_templates = [s \in {ThresholdSession} |-> {}]
    /\ \E m \in MetricsInputs : quality = [s \in {ThresholdSession} |-> m]
    /\ pure = NoThresholdsCall

\* thresholds_met(session_id) and get_missing_thresholds(session_id)
ThresholdsCall ==
    /\ pure.fn = None
    /\ LET m == GetQuality(quality, ThresholdSession) IN
          pure' = [fn |-> "thresholds", sid |-> ThresholdSession,
                   met |-> ThresholdsMet(m), missing |-> GetMissingThresholds(m)]
    /\ UNCHANGED <<storeVars, thr, callbackVars, profiles, handlerVars>>

SpecThresholds == InitThresholds /\ [][ThresholdsCall]_vars

\* the value of each metric of the claim and its minimum
MetricValue(m, k) ==
    CASE k = "turns" -> m.turn_count
      [] k = "questions" -> m.questions_asked
      [] k = "investigative" -> m.investigative_questions
      [] k = "red_flags" -> Cardinality(m.red_flags_identified)
      [] k = "elicitation" -> m.elicitation_attempts
MetricMinimum ==
    [turns |-> 8, questions |-> 5, investigative |-> 3, red_flags |-> 5, elicitation |-> 5]

\* C26: thresholds_met is true exactly when turn_count >= 8, questions_asked
\* >= 5, investigative_questions >= 3, at least 5 red flags and
\* elicitation_attempts >= 5; get_missing_thresholds returns exactly the
\* metrics below their minimum, each with its positive deficit, and is
\* empty exactly when thresholds_met.
C26_Thresholds ==
    pure.fn = "thresholds"
    => LET m == quality[pure.sid] IN
       /\ pure.met <=> \A k \in DOMAIN MetricMinimum : MetricValue(m, k) >= MetricMinimum[k]
       /\ DOMAIN pure.missing = {k \in DOMAIN MetricMinimum : MetricValue(m, k) < MetricMinimum[k]}
       /\ \A k \in DOMAIN pure.missing :
             pure.missing[k] = MetricMinimum[k] - MetricValue(m, k) /\ pure.missing[k] > 0
       /\ (DOMAIN pure.missing = {}) <=> pure.met

\* every counter at its minimum but the red flags, one short
C26_Witness ==
    /\ pure.fn = "thresholds"
    /\ ~pure.met
    /\ DOMAIN pure.missing = {"red_flags"}
    /\ pure.missing["red_flags"] = 1
    /\ quality["s1"].turn_count = 8
    /\ quality["s1"].investigative_questions = 3

\* ------------------------------------------------------------------------
\* Claims about callback_history.json
\* ------------------------------------------------------------------------
\* the worker w rewrites the history file in the step
Rewrites(w) == workers[w].pc = "log_write" /\ workers'[w].pc # "log_write"

\* the workers started were started for different sessions
DifferentSessions ==
    \A v, w \in WorkerIds :
        (v # w /\ workers[v].pc # "unstarted" /\ workers[w].pc # "unstarted")
        => workers[v].sid # workers[w].sid

\* C27: the history file never holds more than 1000 records, and every
\* rewrite by a worker, the workers being those of different sessions,
\* leaves in it the records it held, the oldest dropped beyond 1000,
\* followed by the record of the attempt being logged: no record is lost
\* when workers log at the same time.
C27_HistoryKeepsAll ==
    [][/\ Len(logfile') <= 1000
       /\ \A w \in WorkerIds :
             (Rewrites(w) /\ DifferentSessions)
             => logfile' = CapLog(Append(logfile, LogRecord(workers[w].sid, workers[w].payload,
                                                            workers[w].outcome)))]_vars

\* ------------------------------------------------------------------------
\* The legacy detector (app/detector.py): class ScamDetector, the object
\* test_detection.py and test_false_positive.py score their messages with.
\* The variable detector holds its six dicts. Regular expressions and keyword
\* tables are data: a message is given as what the layers of
\* calculate_risk_score find in it.
\* ------------------------------------------------------------------------
MaxLegacyCalls == 4            \* calls of calculate_risk_score in a run
LegacySessions == {"s1", "s2"}

\* INTENT_WEIGHTS, lines 49-62
INTENT_WEIGHTS ==
    [GREETING |-> 0, SELF_INTRO |-> 0, SMALL_TALK |-> 0, URGENCY |-> 25,
     PAYMENT_REQUEST |-> 40, UPI_REQUEST |-> 45, OTP_REQUEST |-> 50,
     BANK_DETAILS_REQUEST |-> 45, LEGAL_THREAT |-> 30, ACCOUNT_SUSPENSION |-> 35,
     IDENTITY_PROBE |-> 5, UNKNOWN |-> 0]

\* lines 384-386
LegacyThresholds ==
    [SCAM_THRESHOLD |-> 60, HIGH_CONFIDENCE_THRESHOLD |-> 80, CRITICAL_THRESHOLD |-> 120]

\* what the layers find in a message: classify_intent (lines 405-435), the
\* nine keyword tables (weights summed and categories hit, lines 468-480),
\* the templates matched with their weights summed and the type of the
\* first (lines 482-496), _check_links (498-503), _check_escalation (505-512)
Found(intents, keywords, categories, patterns, pattern_score, scam_type, links, escalation) ==
    [intents |-> intents, keywords |-> keywords, categories |-> categories,
     patterns |-> patterns, pattern_score |-> pattern_score, scam_type |-> scam_type,
     links |-> links, escalation |-> escalation]

LegacyTexts ==
    {"Hi", "Hello, how are you?", "Just checking in.", "who are you",
     "click http://bit.ly/x", "no other option", "send money", "share otp now",
     "Your parcel is held at customs"}

LegacyLayers(text) ==
    CASE text = "Hi" -> Found(<<"GREETING">>, 0, {}, << >>, 0, "unknown", 0, 0)
      [] text = "Hello, how are you?" ->
            Found(<<"GREETING", "SMALL_TALK">>, 0, {}, << >>, 0, "unknown", 0, 0)
      [] text = "Just checking in." -> Found(<<"UNKNOWN">>, 0, {}, << >>, 0, "unknown", 0, 0)
      [] text = "who are you" -> Found(<<"IDENTITY_PROBE">>, 0, {}, << >>, 0, "unknown", 0, 0)
      [] text = "click http://bit.ly/x" ->
            Found(<<"UNKNOWN">>, 0, {}, << >>, 0, "unknown", 15, 0)
      [] text = "no other option" -> Found(<<"UNKNOWN">>, 0, {}, << >>, 0, "unknown", 0, 12)
      [] text = "send money" ->
            Found(<<"PAYMENT_REQUEST">>, 18, {"payment"}, << >>, 0, "unknown", 0, 0)
      [] text = "share otp now" ->
            Found(<<"OTP_REQUEST">>, 0, {}, <<13>>, 40, "credential_phishing", 0, 0)
      [] text = "Your parcel is held at customs" ->
            Found(<<"UNKNOWN">>, 35, {"courier_scam", "govt_impersonation"},
                  <<7>>, 40, "courier_scam", 0, 0)

\* get_intent_score, lines 437-439
RECURSIVE GetIntentScore(_)
GetIntentScore(intents) ==
    IF intents = << >> THEN 0
    ELSE INTENT_WEIGHTS[Head(intents)] + GetIntentScore(Tail(intents))

\* MULTI_CATEGORY_BONUS (lines 389-394) as lines 606-611 look it up
MultiCategoryBonus(n) ==
    IF n >= 5 THEN 70
    ELSE IF n >= 2 THEN (CASE n = 2 -> 10 [] n = 3 -> 25 [] n = 4 -> 45)
    ELSE 0

\* determine_stage, lines 441-458
DetermineStage(risk_score, message_count) ==
    IF message_count <= 2 /\ risk_score < 30 THEN "GREETING_STAGE"
    ELSE IF message_count <= 4 \/ risk_score < 50 THEN "RAPPORT_STAGE"
    ELSE IF risk_score < LegacyThresholds.HIGH_CONFIDENCE_THRESHOLD THEN "SUSPICION_STAGE"
    ELSE "EXTRACTION_STAGE"

Least(a, b) == IF a <= b THEN a ELSE b

\* _calculate_confidence, lines 514-534, in thousandths (rounded down below
\* the threshold, exact from it on)
CalculateConfidence(score, categories_hit, pattern_matches) ==
    IF score < LegacyThresholds.SCAM_THRESHOLD
    THEN Least((score * 500) \div LegacyThresholds.SCAM_THRESHOLD, 500)
    ELSE LET base == IF score >= LegacyThresholds.CRITICAL_THRESHOLD THEN 950
                     ELSE IF score >= LegacyThresholds.HIGH_CONFIDENCE_THRESHOLD THEN 850
                     ELSE 700
         IN  Least(base + Least(categories_hit * 30, 150) + Least(pattern_matches * 50, 100), 990)

\* _get_risk_level, lines 536-547
GetRiskLevel(score, confidence) ==
    IF score >= LegacyThresholds.CRITICAL_THRESHOLD \/ confidence >= 900 THEN "critical"
    ELSE IF score >= LegacyThresholds.HIGH_CONFIDENCE_THRESHOLD \/ confidence >= 750 THEN "high"
    ELSE IF score >= LegacyThresholds.SCAM_THRESHOLD THEN "medium"
    ELSE IF score >= 15 THEN "low"
    ELSE "minimal"

\* _infer_scam_type, lines 649-668
InferScamType(categories) ==
    IF "govt_impersonation" \in categories THEN "government_impersonation"
    ELSE IF "identity_scam" \in categories THEN "identity_theft"
    ELSE IF "telecom_scam" \in categories THEN "telecom_scam"
    ELSE IF "courier_scam" \in categories THEN "courier_scam"
    ELSE IF "job_loan_scam" \in categories THEN "job_loan_scam"
    ELSE IF "threat" \in categories THEN "intimidation_scam"
    ELSE IF "payment" \in categories THEN "payment_scam"
    ELSE IF "verification" \in categories THEN "phishing"
    ELSE "generic_scam"

\* d[k] = v on a dict, and del d[k]
SetItem(d, k, v) == [x \in (DOMAIN d) \cup {k} |-> IF x = k THEN v ELSE d[x]]
DelItem(d, k) == [x \in (DOMAIN d) \ {k} |-> d[x]]
GetItem(d, k, default) == IF k \in DOMAIN d THEN d[k] ELSE default

Range(s) == {s[i] : i \in DOMAIN s}

\* calculate_risk_score, lines 549-647: the detector after the call
CalculateRiskScore(det, text, session_id) ==
    LET found == LegacyLayers(text)
        message_count == GetItem(det.session_message_count, session_id, 0) + 1
        categories == GetItem(det.session_categories, session_id, {}) \cup found.categories
        intents == GetItem(det.session_intents, session_id, << >>) \o found.intents
        message_score == GetIntentScore(found.intents) + found.keywords + found.pattern_score
                         + found.links + found.escalation
                         + MultiCategoryBonus(Cardinality(categories))
        total_score == GetItem(det.session_scores, session_id, 0) + message_score
        stage == DetermineStage(total_score, message_count)
        confidence == CalculateConfidence(total_score, Cardinality(categories), Len(found.patterns))
        result == [total_score |-> total_score,
                   is_scam |-> total_score >= LegacyThresholds.SCAM_THRESHOLD,
                   confidence |-> confidence,
                   risk_level |-> GetRiskLevel(total_score, confidence),
                   scam_type |-> IF found.scam_type # "unknown" THEN found.scam_type
                                 ELSE InferScamType(categories),
                   detected_patterns |-> found.patterns,
                   triggered_categories |-> categories,
                   detected_intents |-> Range(intents),
                   conversation_stage |-> stage]
    IN  [session_scores |-> SetItem(det.session_scores, session_id, total_score),
         session_details |-> SetItem(det.session_details, session_id, result),
         session_categories |-> SetItem(det.session_categories, session_id, categories),
         session_message_count |-> SetItem(det.session_message_count, session_id, message_count),
         session_intents |-> SetItem(det.session_intents, session_id, intents),
         session_stages |-> SetItem(det.session_stages, session_id, stage)]

\* reset_session forgetting the score and nothing else: not the code
ResetSessionScoreOnly(det, session_id) ==
    [det EXCEPT !.session_scores = DelItem(det.session_scores, session_id)]

\* reset_session, lines 678-691
ResetSession(det, session_id) ==
    [session_scores |-> DelItem(det.session_scores, session_id),
     session_details |-> DelItem(det.session_details, session_id),
     session_categories |-> DelItem(det.session_categories, session_id),
     session_message_count |-> DelItem(det.session_message_count, session_id),
     session_intents |-> DelItem(det.session_intents, session_id),
     session_stages |-> DelItem(det.session_stages, session_id)]

NoLegacyCall == [fn |-> None, sid |-> None, text |-> None, result |-> << >>, calls |-> 0]

\* detector.calculate_risk_score(text, session_id): pure.result is the pair
\* it returns
LegacyScore ==
    /\ pure.calls < MaxLegacyCalls
    /\ \E sid \in LegacySessions, text \in LegacyTexts :
          /\ detector' = CalculateRiskScore(detector, text, sid)
          /\ pure' = [fn |-> "calculate_risk_score", sid |-> sid, text |-> text,
                      result |-> <<detector'.session_scores[sid],
                                   detector'.session_details[sid].is_scam>>,
                      calls |-> pure.calls + 1]
    /\ UNCHANGED <<storeVars, thr, callbackVars, profiles, quality, req, loop, contexts, used_templates, store>>

\* detector.reset_session(session_id)
LegacyReset ==
    /\ \E sid \in LegacySessions :
          /\ detector' = ResetSession(detector, sid)
          /\ pure' = [pure EXCEPT !.fn = "reset_session", !.sid = sid, !.text = None,
                                  !.result = << >>]
    /\ UNCHANGED <<storeVars, thr, callbackVars, profiles, quality, req, loop, contexts, used_templates, store>>

InitLegacy ==
    /\ StoreInit
    /\ thr = [t \in Threads |-> IdleThread]
    /\ CallbackIdle
    /\ RiskIdle
    /\ HandlerIdle
    /\ pure = NoLegacyCall

NextLegacy == LegacyScore \/ LegacyReset

SpecLegacy == InitLegacy /\ [][NextLegacy]_vars

\* ------------------------------------------------------------------------
\* Claims about the legacy detector, checked on SpecLegacy
\* ------------------------------------------------------------------------
\* a message in which no layer finds anything scored
Benign(text) ==
    LET found == LegacyLayers(text)
    IN  /\ GetIntentScore(found.intents) = 0
        /\ found.keywords = 0 /\ found.categories = {}
        /\ found.patterns = << >> /\ found.pattern_score = 0
        /\ found.links = 0 /\ found.escalation = 0

NeverScored(det, sid) ==
    /\ sid \notin DOMAIN det.session_scores
    /\ sid \notin DOMAIN det.session_details

\* the session has been scored and holds nothing
ScoredNothing(det, sid) ==
    /\ sid \in DOMAIN det.session_scores
    /\ det.session_scores[sid] = 0
    /\ det.session_categories[sid] = {}
    /\ det.session_details[sid].total_score = 0
    /\ ~det.session_details[sid].is_scam

JustReset(sid) == pure.fn = "reset_session" /\ pure.sid = sid

\* C28: a call of calculate_risk_score returns is_scam exactly when the
\* session total it returns is at least SCAM_THRESHOLD (60), and so says the
\* stored result; and a benign message (no scored intent, keyword, template,
\* link or escalation signal) scored in a session that is new, was just
\* reset, or has held only such messages, returns (0, False) and leaves the
\* session holding nothing, so that a session made only of benign messages
\* ends with total_score 0 and is_scam false, before and after a reset.
C28_BenignScoresZero ==
    [][pure'.fn = "calculate_risk_score" /\ pure'.calls # pure.calls
         => LET sid == pure'.sid
            IN  /\ pure'.result[2] <=> pure'.result[1] >= 60
                /\ detector'.session_details[sid].total_score = pure'.result[1]
                /\ detector'.session_details[sid].is_scam = pure'.result[2]
                /\ Benign(pure'.text)
                   /\ (JustReset(sid) \/ NeverScored(detector, sid) \/ ScoredNothing(detector, sid))
                   => pure'.result = <<0, FALSE>> /\ ScoredNothing(detector', sid)]_vars

\* the fourth call is the second benign message of a session that was scored
\* twice before and reset in between; no other session was left
C28_Witness ==
    /\ pure.fn = "calculate_risk_score"
    /\ pure.calls = MaxLegacyCalls
    /\ pure.sid = "s1"
    /\ Benign(pure.text)
    /\ DOMAIN detector.session_scores = {"s1"}
    /\ detector.session_message_count["s1"] = 2
    /\ pure.result = <<0, FALSE>>

\* ------------------------------------------------------------------------
\* Claims about the bonuses and the empty message, checked on SpecRisk
\* ------------------------------------------------------------------------
\* ESCALATION_BONUSES, lines 284-292, as the table it is
ESCALATION_BONUSES ==
    (2 :> 10) @@ (3 :> 28) @@ (4 :> 45) @@ (5 :> 60) @@ (6 :> 72) @@ (7 :> 85) @@ (8 :> 100)

\* the bonus of the largest key of the table that is at most n, 0 without one
LargestKeyBonus(n) ==
    LET keys == {k \in DOMAIN ESCALATION_BONUSES : k <= n}
    IN  IF keys = {} THEN 0
        ELSE ESCALATION_BONUSES[CHOOSE k \in keys : \A j \in keys : j <= k]

\* 6 for every signal counted twice, 12 for every signal counted three times
\* or more
RepeatSum(counts) ==
    6 * Cardinality({k \in DOMAIN counts : counts[k] = 2})
    + 12 * Cardinality({k \in DOMAIN counts : counts[k] >= 3})

\* the call analyses a message that is neither blank nor a suppressed first
\* greeting
ScoredTurn ==
    /\ pure'.fn = "analyze_message"
    /\ ~IsBlank(pure'.args[1])
    /\ ~(GetProfile(profiles, RiskSession).message_count = 0 /\ IsPureGreeting(pure'.args[1]))
    /\ profiles' # profiles

\* C29: a call of analyze_message on a non-empty message that is not a
\* suppressed first greeting appends the sum of the message's layer scores
\* to turn_scores and raises cumulative_score by exactly that sum, plus the
\* escalation bonus of the number N of distinct signals the session has
\* triggered up to and including this message (the largest table key <= N;
\* 0 below 2, 100 from 8 on), plus the repeat bonus over the session's signal
\* counts (6 per count of 2, 12 per count of 3 or more), whether or not the
\* message itself triggers a signal.
C29_ScoreIncrement ==
    [][ScoredTurn
         => LET p == GetProfile(profiles, RiskSession)
                q == profiles'[RiskSession]
                scores == LayerScores(pure'.args[1])
                turnScore == SumOver(scores, DOMAIN scores)
                N == Cardinality(q.triggered_signals)
            IN  /\ q.turn_scores = Append(p.turn_scores, turnScore)
                /\ q.triggered_signals = p.triggered_signals \cup DOMAIN scores
                /\ q.cumulative_score = p.cumulative_score + turnScore
                                        + LargestKeyBonus(N) + RepeatSum(q.signal_counts)
                /\ N < 2 => LargestKeyBonus(N) = 0
                /\ N >= 8 => LargestKeyBonus(N) = 100
                /\ pure'.score = q.cumulative_score]_vars

\* a message triggering no signal has been scored in a session with at least
\* eight distinct signals, one of them counted twice: its turn score is 0 and
\* the session's score is above the sum of its turn scores by the bonuses
C29_Witness ==
    /\ pure.fn = "analyze_message"
    /\ pure.args = <<TxtWeather>>
    /\ RiskSession \in DOMAIN profiles
    /\ LET q == profiles[RiskSession]
       IN  /\ q.message_count = MaxAnalyses
           /\ q.turn_scores[MaxAnalyses] = 0
           /\ Cardinality(q.triggered_signals) >= 8
           /\ \E k \in DOMAIN q.signal_counts : q.signal_counts[k] = 2
           /\ pure.score = q.cumulative_score

\* the empty message and a message of spaces
EmptyOrWhitespace == {"", "   "}

\* C30: a call of analyze_message with empty or whitespace-only text returns
\* the session's current cumulative_score and scam_detected and leaves the
\* session's RiskProfile as it was: message_count, turn_scores,
\* signal_counts, triggered_signals, scam_type and the two values returned.
C30_EmptyMessage ==
    [][pure'.fn = "analyze_message" /\ pure'.args[1] \in EmptyOrWhitespace
         => LET p == GetProfile(profiles, RiskSession)
                q == GetProfile(profiles', RiskSession)
            IN  /\ pure'.score = p.cumulative_score
                /\ pure'.flag = p.scam_detected
                /\ q.message_count = p.message_count
                /\ q.turn_scores = p.turn_scores
                /\ q.signal_counts = p.signal_counts
                /\ q.triggered_signals = p.triggered_signals
                /\ q.scam_type = p.scam_type
                /\ q = p]_vars

\* a whitespace-only message has been analysed in a session that had been
\* flagged after three messages: the call returned the session's score
C30_Witness ==
    /\ pure.fn = "analyze_message"
    /\ pure.args = <<"   ">>
    /\ RiskSession \in DOMAIN profiles
    /\ profiles[RiskSession].message_count = 3
    /\ Len(profiles[RiskSession].turn_scores) = 3
    /\ profiles[RiskSession].scam_detected
    /\ pure.flag
    /\ pure.score = profiles[RiskSession].cumulative_score
    /\ pure.score > SCAM_THRESHOLD

\* ------------------------------------------------------------------------
\* The history of a request (app/main.py, lines 124-170): SpecReplay
\* The requests carry a conversationHistory of messages with a sender and a
\* text; the extractor is app/extractor.py, the one main.py imports. What it
\* finds in a text is data, as the layer scores are.
\* ------------------------------------------------------------------------
MaxReplayRequests == 2     \* valid requests served in a run of SpecReplay
MaxHistory == 2            \* messages in a conversationHistory

ReplaySession == "s1"
\* Message.sender is Optional[str]: a sender, or None
HistorySenders == {"scammer", "user", None}
HistoryTexts == {TxtEmpty, TxtVisit, TxtPayUpi}
HistoryMessages == [sender : HistorySenders, text : HistoryTexts]
Histories == UNION {[1..n -> HistoryMessages] : n \in 0..MaxHistory}
ReplayTexts == {TxtBlank, TxtWeather, TxtHurry}

\* app/extractor.py, _ensure_session, lines 368-380
AppIntelKeys == {"phoneNumbers", "bankAccounts", "upiIds", "phishingLinks", "emailAddresses"}
AppEnsureIntel(st, sid) ==
    IF sid \in DOMAIN st THEN st
    ELSE [s \in DOMAIN st \cup {sid} |-> IF s = sid THEN [k \in AppIntelKeys |-> {}] ELSE st[s]]

\* what the five extractors of app/extractor.py (lines 225-366) find
AppFinds(text) ==
    [k \in AppIntelKeys |->
        IF text = TxtVisit /\ k = "phishingLinks" THEN {"http://bad.xyz/in"}
        ELSE IF text = TxtPayUpi /\ k = "upiIds" THEN {"scam@paytm"}
        ELSE {}]

\* app/extractor.py, extract, lines 185-203
AppExtract(st, text, sid) ==
    IF IsBlank(text) THEN AppEnsureIntel(st, sid)
    ELSE [AppEnsureIntel(st, sid) EXCEPT
             ![sid] = [k \in AppIntelKeys |-> @[k] \cup AppFinds(text)[k]]]

\* the history replayed to the detector whatever the session: not the code
ReplayToDetectorAlways(is_fresh) == TRUE

\* line 142: if is_fresh
ReplayToDetector(is_fresh) == is_fresh

\* lines 136-143: the loop over the history. acc holds the risk profile and
\* the intelligence store as the loop leaves them, with the texts handed to
\* analyze_message and to extract, in the order of the calls
RECURSIVE ReplayHistory(_, _, _, _)
ReplayHistory(acc, history, sid, is_fresh) ==
    IF history = << >> THEN acc
    ELSE LET hist_msg == Head(history)
             sender == IF hist_msg.sender = None THEN "scammer" ELSE hist_msg.sender
             extracts == sender = "scammer" /\ hist_msg.text # TxtEmpty
             analyses == extracts /\ ReplayToDetector(is_fresh)
             next == [profile |-> IF analyses
                                  THEN AnalyzeMessage(acc.profile, hist_msg.text).profile
                                  ELSE acc.profile,
                      store |-> IF extracts THEN AppExtract(acc.store, hist_msg.text, sid)
                                ELSE acc.store,
                      analysed |-> IF analyses THEN Append(acc.analysed, hist_msg.text)
                                   ELSE acc.analysed,
                      extracted |-> IF extracts THEN Append(acc.extracted, hist_msg.text)
                                    ELSE acc.extracted]
         IN  ReplayHistory(next, Tail(history), sid, is_fresh)

\* the request being served and the calls its turn made
NoReplayCall ==
    [history |-> << >>, is_fresh |-> FALSE, analysed |-> << >>, extracted |-> << >>,
     before |-> << >>, requests |-> 0]

\* lines 102-122: a request with a history arrives and is validated
ReplayReceive(r) ==
    /\ req[r].pc = "idle"
    /\ loop = None
    /\ \E text \in ReplayTexts, history \in Histories :
          IF IsBlank(text)
          THEN /\ req' = [req EXCEPT ![r] = [IdleReq EXCEPT !.pc = "reject",
                                                !.sid = ReplaySession, !.text = text,
                                                !.hlen = Len(history), !.reply = REPLY_REPEAT]]
               /\ pure' = pure
          ELSE /\ pure.requests < MaxReplayRequests
               /\ req' = [req EXCEPT ![r] = [IdleReq EXCEPT !.pc = "turn", !.sid = ReplaySession,
                                                !.text = text, !.hlen = Len(history)]]
               /\ pure' = [pure EXCEPT !.history = history, !.requests = @ + 1]
    /\ loop' = r
    /\ UNCHANGED <<storeVars, thr, callbackVars, profiles, quality, agentVars>>

\* lines 124-199: session management, history replay, risk analysis,
\* intelligence extraction, reply
ReplayTurn(r) ==
    /\ req[r].pc = "turn"
    /\ loop = r
    /\ EnsureEnabled(St, req[r].sid, now)
    /\ \E v \in VarianceSamples, kind \in ReplyKinds :
          LET sid == req[r].sid
              st1 == EnsureSession(St, sid, now, v)
              d1 == st1.sessions[sid]
              is_fresh == Len(d1.messages) = 0
              p0 == GetProfile(profiles, sid)
              replayed == ReplayHistory([profile |-> p0, store |-> store,
                                         analysed |-> << >>, extracted |-> << >>],
                                        pure.history, sid, is_fresh)
              d2 == AddMessage(d1, "scammer")
              a == AnalyzeMessage(replayed.profile, req[r].text)
              d3 == IF a.is_scam /\ ~d2.scam_confirmed THEN MarkScamConfirmed(d2) ELSE d2
              m == RecordReply(GetQuality(quality, sid), kind, a.profile.triggered_signals)
              d4 == SetAgentResponse(AddMessage(d3, "agent"), kind)
              st2 == [st1 EXCEPT !.sessions[sid] = d4]
          IN /\ SetStore(st2)
             /\ hist' = HistAfter(st2)
             /\ profiles' = PutProfile(profiles, sid, a.profile)
             /\ store' = AppExtract(replayed.store, req[r].text, sid)
             /\ quality' = PutQuality(quality, sid, m)
             /\ pure' = [pure EXCEPT !.is_fresh = is_fresh,
                                     !.analysed = Append(replayed.analysed, req[r].text),
                                     !.extracted = Append(replayed.extracted, req[r].text),
                                     !.before = p0]
             /\ req' = [req EXCEPT ![r].pc = "check",
                                   ![r].cum_score = a.score,
                                   ![r].scam_confirmed = d3.scam_confirmed,
                                   ![r].total_messages = req[r].hlen + 1,
                                   ![r].reply = kind]
    /\ UNCHANGED <<now, lock, thr, callbackVars, loop, contexts, used_templates, detector>>

InitReplay ==
    /\ StoreInit
    /\ thr = [t \in Threads |-> IdleThread]
    /\ CallbackIdle
    /\ RiskIdle
    /\ HandlerIdle
    /\ pure = NoReplayCall

\* with histories of at most MaxHistory messages no request reaches the
\* turns a callback needs: the check of lines 206-238 never sends
NextReplay ==
    \/ ReplayReceive("r1")
    \/ ReplayTurn("r1")
    \/ HandlerCheck("r1")
    \/ HandlerSleep("r1")
    \/ HandlerReturn("r1")

SpecReplay == InitReplay /\ [][NextReplay]_vars

\* ------------------------------------------------------------------------
\* Claims about the history of a request, checked on SpecReplay
\* ------------------------------------------------------------------------
\* the texts of the history messages a scammer sent (sender "scammer", or
\* none given) that are not empty, in the order of the history
RECURSIVE ScammerTexts(_)
ScammerTexts(history) ==
    IF history = << >> THEN << >>
    ELSE (IF Head(history).sender \in {"scammer", None} /\ Head(history).text # ""
          THEN <<Head(history).text>> ELSE << >>)
         \o ScammerTexts(Tail(history))

\* the profile after the texts have gone through analyze_message in order
RECURSIVE AnalysedInOrder(_, _)
AnalysedInOrder(p, texts) ==
    IF texts = << >> THEN p
    ELSE AnalysedInOrder(AnalyzeMessage(p, Head(texts)).profile, Tail(texts))

HasStoredMessages(sid) == sid \in DOMAIN sessions /\ Len(sessions[sid].messages) > 0

\* C31: in a turn, every non-empty history message of a scammer is handed
\* to the extractor, then the current message. When the session already
\* holds stored messages, analyze_message is called for the current message
\* only and the RiskProfile becomes what that one call makes of it; when the
\* session holds none, analyze_message is called once for each of those
\* history messages, in order, and then for the current message.
C31_HistoryReplay ==
    [][req["r1"].pc = "turn" /\ req'["r1"].pc = "check"
         => LET sid == req["r1"].sid
                text == req["r1"].text
                texts == ScammerTexts(pure.history)
                p == GetProfile(profiles, sid)
            IN  /\ pure'.extracted = texts \o <<text>>
                /\ HasStoredMessages(sid)
                      => /\ pure'.analysed = <<text>>
                         /\ profiles'[sid] = AnalyzeMessage(p, text).profile
                /\ ~HasStoredMessages(sid)
                      => /\ pure'.analysed = texts \o <<text>>
                         /\ profiles'[sid] = AnalysedInOrder(p, texts \o <<text>>)]_vars

\* the second request of a session has been served: its history held two
\* scoring messages of the scammer, one of them without a sender; both went
\* to the extractor and none to the detector, whose profile counts two
\* messages less than were extracted
C31_Witness ==
    /\ req["r1"].pc = "check"
    /\ pure.requests = 2
    /\ ~pure.is_fresh
    /\ pure.history = <<[sender |-> None, text |-> TxtPayUpi], [sender |-> "scammer", text |-> TxtVisit]>>
    /\ pure.extracted = <<TxtPayUpi, TxtVisit, TxtHurry>>
    /\ pure.analysed = <<TxtHurry>>
    /\ profiles[ReplaySession].message_count = pure.before.message_count + 1
    /\ store[ReplaySession].upiIds = {"scam@paytm"}
    /\ store[ReplaySession].phishingLinks = {"http://bad.xyz/in"}

\* C32: when the risk-analysis stage of a turn raises, the risk score the
\* rest of the turn works with (the stage computation of get_reply, the
\* confidence of the payload) is the cumulative score the session's
\* RiskProfile holds, not a reset value.
C32_ScoreKeptOnFailure ==
    [][pure.pc = "except" /\ pure.raised = "risk" /\ pure'.pc = "extract"
         => pure'.cum_score = GetProfile(profiles, FaultSession).cumulative_score]_vars

\* the state of the components: the session store, the risk profiles, the
\* intelligence, the quality counters, the reply contexts, the callbacks
Components ==
    <<sessions, next_inc, last_cleanup, hist, profiles, store, quality, contexts,
      used_templates, workers, logfile>>

\* the request has no session id or a blank text
BadInput(loc) == loc.sid = "" \/ loc.text \in EmptyOrWhitespace

MaxStageScore == 100     \* largest risk_score passed to _compute_stage
MaxStageMessages == 8    \* largest msg_count passed to _compute_stage

StageArgs ==
    [risk_score : 0..MaxStageScore, msg_count : 0..MaxStageMessages, is_scam : BOOLEAN]

InitStage ==
    /\ StoreInit
    /\ thr = [t \in Threads |-> IdleThread]
    /\ CallbackIdle
    /\ RiskIdle
    /\ HandlerIdle
    /\ \E a \in StageArgs : pure = [NoCall EXCEPT !.fn = "_compute_stage", !.args = a]

\* get_reply, line 479: stage = self._compute_stage(risk_score, msg_count, is_scam)
StageCall ==
    /\ pure.fn = "_compute_stage"
    /\ ~pure.done
    /\ pure' = [pure EXCEPT !.done = TRUE,
                            !.score = ComputeStage(pure.args.risk_score, pure.args.msg_count,
                                                   pure.args.is_scam)]
    /\ UNCHANGED <<storeVars, thr, callbackVars, profiles, handlerVars>>

SpecStage == InitStage /\ [][StageCall]_vars

\* C34: the stage _compute_stage returns for (risk_score, msg_count,
\* is_scam) is in 1..5 and is: when not is_scam and risk_score < 30, 1 for
\* msg_count <= 3 and 2 beyond; otherwise 2 when risk_score < 50; otherwise,
\* when risk_score < 80, 3 for msg_count <= 5 and 4 beyond; otherwise 5 for
\* msg_count >= 6 and 4 below.
C34_Stage ==
    (pure.fn = "_compute_stage" /\ pure.done) =>
        LET r == pure.args.risk_score
            m == pure.args.msg_count
            benign == ~pure.args.is_scam /\ r < 30
            stage == pure.score
        IN  /\ stage \in 1..5
            /\ benign => stage = (IF m <= 3 THEN 1 ELSE 2)
            /\ (~benign /\ r < 50) => stage = 2
            /\ (r >= 50 /\ r < 80) => stage = (IF m <= 5 THEN 3 ELSE 4)
            /\ r >= 80 => stage = (IF m >= 6 THEN 5 ELSE 4)

\* a high-risk session at its fifth message is at stage 4, not yet 5
C34_Witness ==
    /\ pure.fn = "_compute_stage" /\ pure.done
    /\ pure.args = [risk_score |-> 80, msg_count |-> 5, is_scam |-> TRUE]
    /\ pure.score = 4

\* ------------------------------------------------------------------------
\* generate_probing_response called turn after turn for one session
\* (conversation_quality.py), in SpecProbe: the caller records the turn
\* (agent.py, line 487) and passes the detected signals, the stage and the
\* intelligence of the session, which only grows
\* ------------------------------------------------------------------------
MaxProbeCalls == 6     \* calls of generate_probing_response
MaxProbeTurns == 5     \* calls of record_turn

ProbeSession == "s1"
ProbeSignals == {{}, {"otp_request", "account_suspension"}}
ProbeStages == {2, 3}
ProbeIntels == {{}, {"phoneNumbers"}}

\* the texts of a response
Texts(response) == {response[i].text : i \in 1..Len(response)}

InitProbe ==
    /\ StoreInit
    /\ thr = [t \in Threads |-> IdleThread]
    /\ CallbackIdle
    /\ RiskIdle
    /\ HandlerIdle
    /\ \E signals \in ProbeSignals :
          pure = [fn |-> "generate_probing_response", signals |-> signals, calls |-> 0,
                  intel |-> {}, response |-> NoReply, returned |-> {}]

\* record_turn (conversation_quality.py, lines 277-280)
ProbeRecordTurn ==
    /\ pure.fn = "generate_probing_response"
    /\ GetQuality(quality, ProbeSession).turn_count < MaxProbeTurns
    /\ quality' = PutQuality(quality, ProbeSession,
                             [GetQuality(quality, ProbeSession) EXCEPT !.turn_count = @ + 1])
    /\ used_templates' = EnsureUsedTemplates(used_templates, ProbeSession)
    /\ UNCHANGED <<storeVars, thr, callbackVars, profiles, pure, req, loop, contexts, store, detector>>

\* one call of generate_probing_response; returned collects the texts of the
\* responses before this one
ProbeCall ==
    /\ pure.fn = "generate_probing_response"
    /\ pure.calls < MaxProbeCalls
    /\ \E stage \in ProbeStages, intel \in ProbeIntels :
          /\ pure.intel \subseteq intel
          /\ \E o \in GenerateProbingResponse(GetQuality(quality, ProbeSession),
                                              EnsureUsedTemplates(used_templates, ProbeSession),
                                              ProbeSession, pure.signals, stage, intel) :
                /\ quality' = PutQuality(quality, ProbeSession, o.m)
                /\ used_templates' = o.ut
                /\ pure' = [pure EXCEPT !.calls = @ + 1, !.intel = intel, !.response = o.response,
                                        !.returned = @ \cup Texts(pure.response)]
    /\ UNCHANGED <<storeVars, thr, callbackVars, profiles, req, loop, contexts, store, detector>>

NextProbe == ProbeRecordTurn \/ ProbeCall

SpecProbe == InitProbe /\ [][NextProbe]_vars

\* the texts of a list
Templates(pool) == {pool[i] : i \in 1..Len(pool)}

\* the lists _get_unused_template draws from in a call with this intelligence
ProbePools(intel) == {INVESTIGATIVE_TEMPLATES, FilterTemplatesByIntel(ELICITATION_TEMPLATES, intel)}

\* C35: within a session the quality tracker does not return an
\* investigative or elicitation template that an earlier response of the
\* session returned while the list it draws from still holds a template no
\* response has returned; it reuses templates only once the list is exhausted.
C35_NoTemplateRepeat ==
    [][(pure'.fn = "generate_probing_response" /\ pure'.calls = pure.calls + 1) =>
          \A pool \in ProbePools(pure'.intel) :
             \A t \in Texts(pure'.response) \cap Templates(pool) :
                t \in pure'.returned => Templates(pool) \subseteq pure'.returned]_vars

\* the sentences of RED_FLAG_TEMPLATES
RedFlagSentences == UNION {Templates(RED_FLAG_TEMPLATES[k]) : k \in DOMAIN RED_FLAG_TEMPLATES}

\* a call of generate_probing_response whose response holds a red-flag
\* sentence
RedFlagProbe ==
    /\ pure'.fn = "generate_probing_response"
    /\ pure'.calls = pure.calls + 1
    /\ Texts(pure'.response) \cap RedFlagSentences # {}

\* C36: the tracker emits a red-flag sentence only for a detected signal
\* whose mapped red-flag key is not yet in red_flags_identified, so every
\* probe with a red-flag sentence adds exactly one key to
\* red_flags_identified.
C36_RedFlagAddsOne ==
    [][RedFlagProbe =>
          LET before == GetQuality(quality, ProbeSession).red_flags_identified
              after == GetQuality(quality', ProbeSession).red_flags_identified
          IN /\ Cardinality(after) = Cardinality(before) + 1
             /\ \E signal \in pure.signals :
                   /\ MapSignalToRedflag(signal) \notin before
                   /\ after = before \cup {MapSignalToRedflag(signal)}
                   /\ Texts(pure'.response) \cap Templates(RED_FLAG_TEMPLATES[MapSignalToRedflag(signal)]) # {}]_vars

\* ------------------------------------------------------------------------
\* Claims on the payload of the callback (Spec)
\* ------------------------------------------------------------------------
\* the payloads handed to send_callback_async: the one a handler is about to
\* hand over and the ones the started workers hold
HandedPayloads ==
    {req[r].payload : r \in {x \in ReqIds : req[x].pc = "send"}}
        \cup {workers[w].payload : w \in {x \in WorkerIds : workers[x].pc # "unstarted"}}

Recreated(sid) ==
    /\ Exists(St, sid)
    /\ sessions[sid].final_submitted
    /\ sid \in DOMAIN sessions'
    /\ sessions'[sid].inc # sessions[sid].inc

\* C39: the finalization does not outlive the session record: once cleanup
\* has removed a finalized session, the next turn with the same session id
\* creates a session with final_submitted false, for which mark_finalized
\* returns true again, and a dispatch for the new record follows a
\* mark_finalized that returned true for it.
C39_FinalizationReaped ==
    [][/\ \A sid \in HandlerSessionIds :
             Recreated(sid) =>
                 /\ ~sessions'[sid].final_submitted
                 /\ ~sessions'[sid].callback_sent
                 /\ sessions'[sid].inc \notin DOMAIN hist
                 /\ hist'[sessions'[sid].inc] = NoHist
                 /\ MarkFinalizedResult([sessions |-> sessions', next_inc |-> next_inc',
                                         last_cleanup |-> last_cleanup'], sid)
       /\ \A r \in ReqIds :
             (req[r].pc = "mark" /\ req'[r].pc # "mark" /\ Exists(St, req[r].sid)
              /\ hist[sessions[req[r].sid].inc].mf_true = 0 /\ ~sessions[req[r].sid].final_submitted)
                 => /\ sessions'[req[r].sid].final_submitted
                    /\ hist'[sessions[req[r].sid].inc].mf_true = 1]_vars

\* a second callback has been dispatched for the session id: one worker holds
\* the payload of the reaped record, another the payload of the record that
\* replaced it, after mark_finalized returned true for that record
C39_Witness ==
    \E sid \in HandlerSessionIds, w1, w2 \in WorkerIds :
        /\ Exists(St, sid)
        /\ sessions[sid].final_submitted
        /\ hist[sessions[sid].inc].mf_true = 1
        /\ hist[sessions[sid].inc].dispatches = 1
        /\ Started(w1) /\ workers[w1].sid = sid /\ workers[w1].inc < sessions[sid].inc
        /\ Started(w2) /\ workers[w2].sid = sid /\ workers[w2].inc = sessions[sid].inc

\* ------------------------------------------------------------------------
\* The lock of the session store (app/memory.py), in SpecLock: threads
\* running the operations that work under the lock, with fair scheduling
\* ------------------------------------------------------------------------
LockOps == {"ensure_session", "mark_finalized", "cleanup_session", "get_session_count"}

\* the threads whose ensure_session has not run its block yet
PendingEnsures == {t \in Threads : thr[t].op = "ensure_session" /\ thr[t].pc \in {"acquire", "locked"}}

\* a thread enters one of the operations; the session dicts ever created are
\* capped at MaxInc
LockCall(t) ==
    /\ thr[t].pc = "idle"
    /\ \E op \in LockOps, sid \in StoreSessionIds :
          /\ op = "ensure_session" => next_inc + Cardinality(PendingEnsures) <= MaxInc
          /\ thr' = [thr EXCEPT ![t] = [IdleThread EXCEPT !.pc = "acquire", !.op = op, !.sid = sid]]
    /\ UNCHANGED <<now, sessions, next_inc, last_cleanup, lock, hist>>
    /\ UNCHANGED notStore

\* the steps of a thread that holds the lock
ThreadRun(t) ==
    \/ ThreadEnsureBody(t)
    \/ ThreadMfCheck(t)
    \/ ThreadMfSet(t)
    \/ ThreadCleanupSession(t)
    \/ ThreadGetSessionCount(t)
    \/ ThreadRelease(t)

NextLock ==
    \/ Tick
    \/ \E t \in Threads : LockCall(t)
    \/ \E t \in Threads : ThreadAcquire(t)
    \/ \E t \in Threads : ThreadEnsureBody(t)
    \/ \E t \in Threads : ThreadMfCheck(t)
    \/ \E t \in Threads : ThreadMfSet(t)
    \/ \E t \in Threads : ThreadCleanupSession(t)
    \/ \E t \in Threads : ThreadGetSessionCount(t)
    \/ \E t \in Threads : ThreadRelease(t)

\* a thread that can run is scheduled; a thread waiting for the lock gets it
\* when the lock is free again and again (the holders release it)
FairLock == \A t \in Threads : WF_vars(ThreadRun(t)) /\ SF_vars(ThreadAcquire(t))

SpecLock == InitStore /\ [][NextLock]_vars /\ FairLock

\* a thread is inside a with self._lock block
HoldsLock(t) == thr[t].pc \in {"locked", "mf_set", "release"}

\* a thread is waiting to enter a with self._lock block
WaitsForLock(t) ==
    \/ thr[t].pc = "acquire"
    \/ thr[t].pc = "locked" /\ AcquiresInside(thr[t].op)

\* C40: no operation of the store waits for the lock while holding it, the
\* lock is held exactly while some operation is inside its with block (so it
\* is free whenever no operation is in progress), and every operation
\* (ensure_session with its cleanup, mark_finalized, cleanup_session,
\* get_session_count) that has started returns.
C40_LockDiscipline ==
    /\ [](\A t \in Threads :
             /\ WaitsForLock(t) => lock # t
             /\ HoldsLock(t) <=> lock = t)
    /\ []((\A t \in Threads : thr[t].pc = "idle") => lock = None)
    /\ \A t \in Threads : (thr[t].pc # "idle") ~> (thr[t].pc = "idle")

\* ensure_session is running its cleanup under the lock, with a session to
\* reap, while the other thread waits for the lock
C40_Witness ==
    \E t, u \in Threads :
        /\ thr[t].pc = "locked" /\ thr[t].op = "ensure_session" /\ lock = t
        /\ CleanupDue(St, now) /\ Expired(St, now) # {}
        /\ thr[u].pc = "acquire"

\* ------------------------------------------------------------------------
\* Claims on the order of the turns of a session (SpecOverlap)
\* ------------------------------------------------------------------------
\* the step in which request r runs its pipeline (main.py, lines 124-199)
TurnStep(r) == req[r].pc = "turn" /\ req'[r].pc = "check"

\* every other request has made all of its mutations: it is idle, rejected,
\* or in its jitter sleep, past the last statement of its pipeline
OthersSettled(r) ==
    \A r2 \in ReqIds \ {r} : req[r2].pc \in {"idle", "asleep"}

\* C37: within a session (while the store keeps its record) the reply to a
\* turn is computed from a state that holds every mutation of the earlier
\* turns: when a turn runs its pipeline no other request is part-way through
\* its own, also when an earlier turn of the session is still in its jitter
\* sleep, and the turn adds its messages, its score and its counters to what
\* the earlier turns left.
C37_TurnsObserveEarlier ==
    [][\A r \in ReqIds :
          TurnStep(r) =>
             LET sid == req[r].sid IN
             /\ OthersSettled(r)
             /\ SameDict(sid) =>
                   /\ sessions'[sid].messages = sessions[sid].messages \o <<"scammer", "agent">>
                   /\ sessions'[sid].turn_count = sessions[sid].turn_count + 1
                   /\ sessions[sid].scam_confirmed => sessions'[sid].scam_confirmed
                   /\ sessions[sid].final_submitted => sessions'[sid].final_submitted
                   /\ sessions'[sid].start_time = sessions[sid].start_time
             /\ GetQuality(quality', sid).turn_count = GetQuality(quality, sid).turn_count + 1
             /\ GetProfile(profiles', sid).message_count > GetProfile(profiles, sid).message_count
             /\ GetProfile(profiles', sid).cumulative_score >= GetProfile(profiles, sid).cumulative_score
             /\ GetProfile(profiles, sid).triggered_signals \subseteq GetProfile(profiles', sid).triggered_signals
             /\ req'[r].cum_score = GetProfile(profiles', sid).cumulative_score]_vars

\* the second turn of a session has run its pipeline while the first is
\* still in its jitter sleep, and found the first turn's messages and latch
C37_Witness ==
    \E r1, r2 \in ReqIds :
        /\ r1 # r2 /\ req[r1].sid = req[r2].sid
        /\ req[r1].pc = "asleep"
        /\ req[r2].pc = "check"
        /\ Exists(St, req[r2].sid)
        /\ Len(sessions[req[r2].sid].messages) = 4
        /\ sessions[req[r2].sid].final_submitted
        /\ GetQuality(quality, req[r2].sid).turn_count = 2

====
